---- MODULE Spec2Model ----
(***************************************************************************)
(* Authorization, tenant scoping and session cache of the learnmate        *)
(* backend (FastAPI routers over a Supabase table store).                  *)
(*                                                                         *)
(* Every request handler is one action.  A Python dict is a function with  *)
(* a set of string keys, Python None / SQL NULL is the string "None", and  *)
(* an HTTP status is its number.  The variable resp holds the response of  *)
(* the last request together with the values the handler read before it    *)
(* changed anything.                                                       *)
(***************************************************************************)
EXTENDS Integers, FiniteSets, Sequences, Bags, TLC

VARIABLES
    USE_REAL_JWT,   \* settings.USE_REAL_JWT
    sessions,       \* session_cache._sessions : token -> (user_id, expires_at)
    issued,         \* history: every (user_id, expires_at) create_session stored
    now,            \* time.time()
    ticks,          \* number of clock steps taken
    profiles,       \* table profiles       : id -> row
    classes,        \* table classes        : id -> row
    class_seq,      \* number of class ids uuid4() has handed out
    class_students, \* table class_students : bag of rows (no unique key)
    assignments,    \* table assignments    : id -> row
    submissions,    \* table submissions    : bag of rows
    attendance,     \* table attendance     : id -> row
    att_seq,        \* number of attendance ids the store has handed out
    auth_users,     \* identity provider: the ids (emails) it has registered
    schools,        \* table schools       : the school names in use
    inflight,       \* worker -> the request it is in the middle of
    resp            \* the last response

cacheVars == <<sessions, issued, now, ticks>>
attVars == <<attendance, att_seq>>
idpVars == <<auth_users, schools>>
storeVars == <<profiles, classes, class_seq, class_students, assignments,
               submissions, attVars, idpVars>>

vars == <<USE_REAL_JWT, cacheVars, storeVars, inflight, resp>>

----------------------------------------------------------------------------
(* Bounds of the model *)

MaxTokens == 2      \* tokens uuid4() hands out in one behaviour
MaxTicks == 2       \* clock steps in one behaviour
MaxClasses == 3     \* rows the classes table can hold
MaxAssignments == 3 \* rows the assignments table can hold
MaxAttendance == 2  \* attendance rows inserted in one behaviour

(* Program constants *)

DEFAULT_TTL == 3600

None == "None"

(* the server's workers, each handling one request at a time *)
Workers == {"w1", "w2"}
Idle == [op |-> "idle"]

Tokens == 1 .. MaxTokens
NoToken == 0        \* a bearer string that create_session never returned

TTLs == {1, DEFAULT_TTL}
TickSteps == {1, DEFAULT_TTL}

Schools == {"S1", "S2"}

(* The people of the model.  G1 has credentials at the identity provider   *)
(* but no profile row, N1 has a profile row without a role.                *)
UserIds == {"A1", "A2", "T1", "T2", "T3", "P1", "N1", "G1"}

InitProfiles ==
    [u \in UserIds \ {"G1"} |->
        CASE u = "A1" -> [role |-> "admin",   school_id |-> "S1"]
          [] u = "A2" -> [role |-> "admin",   school_id |-> "S2"]
          [] u = "T1" -> [role |-> "teacher", school_id |-> "S1"]
          [] u = "T2" -> [role |-> "teacher", school_id |-> "S1"]
          [] u = "T3" -> [role |-> "teacher", school_id |-> "S2"]
          [] u = "P1" -> [role |-> "student", school_id |-> "S1"]
          [] OTHER    -> [role |-> None,      school_id |-> "S1"]]

(* The rows the store holds before the first request: class 1 of school   *)
(* S1 taught by T1 with assignment 1, class 2 of school S2 taught by T3    *)
(* with assignment 2.                                                      *)
InitClasses ==
    [c \in {1, 2} |->
        IF c = 1 THEN [teacher_id |-> "T1", school_id |-> "S1"]
        ELSE [teacher_id |-> "T3", school_id |-> "S2"]]

InitAssignments ==
    [a \in {1, 2} |->
        IF a = 1 THEN [class_id |-> 1, created_by |-> "T1", school_id |-> "S1"]
        ELSE [class_id |-> 2, created_by |-> "T3", school_id |-> "S2"]]

(* Rows of a select on profiles filtered by id *)
ProfileRows(tbl, id) ==
    IF id \in DOMAIN tbl THEN {tbl[id]} ELSE {}

----------------------------------------------------------------------------
(* app/core/session_cache.py *)

(* create_session: the map after storing (user_id, now + ttl) under token *)
create_session(map, token, user_id, ttl, t) ==
    [x \in DOMAIN map \cup {token} |->
        IF x = token THEN [user_id |-> user_id, expires_at |-> t + ttl]
        ELSE map[x]]

(* an expiry test with the comparison turned round *)
is_expired_reversed(entry, t) ==
    t < entry.expires_at

(* an entry counts as expired when expires_at < now *)
is_expired(entry, t) ==
    entry.expires_at < t

(* get_user_id_for_token without the del of the expired entry *)
get_user_id_for_token_no_del(map, token, t) ==
    IF token \notin DOMAIN map
    THEN [result |-> None, map |-> map]
    ELSE IF is_expired(map[token], t)
         THEN [result |-> None, map |-> map]
         ELSE [result |-> map[token].user_id, map |-> map]

(* get_user_id_for_token: the value returned and the map it leaves *)
get_user_id_for_token(map, token, t) ==
    IF token \notin DOMAIN map
    THEN [result |-> None, map |-> map]
    ELSE IF is_expired(map[token], t)
         THEN [result |-> None,
               map |-> [x \in DOMAIN map \ {token} |-> map[x]]]
         ELSE [result |-> map[token].user_id, map |-> map]

(* _sessions.get(token), as the set of entries found *)
SessionRows(map, token) ==
    IF token \in DOMAIN map THEN {map[token]} ELSE {}

(* invalidate_session emptying the whole map *)
invalidate_session_all(map, token) ==
    [x \in {} |-> map[x]]

(* invalidate_session: _sessions.pop(token, None) *)
invalidate_session(map, token) ==
    [x \in DOMAIN map \ {token} |-> map[x]]

(* clear_expired deleting every entry that expires within the default ttl *)
clear_expired_early(map, t) ==
    [x \in {y \in DOMAIN map : ~ is_expired(map[y], t + DEFAULT_TTL)} |->
        map[x]]

(* clear_expired: delete every entry with expires_at < now *)
clear_expired(map, t) ==
    [x \in {y \in DOMAIN map : ~ is_expired(map[y], t)} |-> map[x]]

----------------------------------------------------------------------------
(* app/core/security.py *)

(* get_dummy_user *)
get_dummy_user ==
    [id |-> "test-user-id", email |-> "test@example.com",
     role |-> "student", full_name |-> "Test User"]

NoUser == [id |-> None]

(* What get_current_user receives: the HTTPAuthorizationCredentials that   *)
(* Depends(security) built from the Authorization header (kind "bearer",   *)
(* sub the "sub" claim of the unverified JWT, "None" when the JWT has      *)
(* none, "garbage" when the token is no JWT), or a plain str when a        *)
(* handler calls get_current_user(user_id) itself (kind "str").            *)
BearerCred(sub) == [kind |-> "bearer", value |-> sub]
StrCred(s) == [kind |-> "str", value |-> s]

(* The profile store out of reach: every query on it raises.  Such a table *)
(* is told apart from the stored one by its single key.                    *)
Unreachable ==
    [u \in {"unreachable"} |-> [role |-> None, school_id |-> None]]

Raises(tbl) ==
    "unreachable" \in DOMAIN tbl

(* get_current_user: status 0 and the user on return, the status of the    *)
(* HTTPException it raises otherwise; 500 is the AttributeError of         *)
(* credentials.scheme on a str, which nothing in the function catches; an  *)
(* exception of the profile query is caught and raised as 401.             *)
get_current_user(cred, real_jwt, tbl) ==
    IF ~ real_jwt
    THEN [status |-> 0, user |-> get_dummy_user]
    ELSE IF cred.kind = "str"
    THEN (IF cred.value = "" THEN [status |-> 401, user |-> NoUser]
          ELSE [status |-> 500, user |-> NoUser])
    ELSE IF cred.value \in {None, "garbage"}
    THEN [status |-> 401, user |-> NoUser]
    ELSE IF Raises(tbl)
    THEN [status |-> 401, user |-> NoUser]
    ELSE IF ProfileRows(tbl, cred.value) = {}
    THEN [status |-> 401, user |-> NoUser]
    ELSE IF tbl[cred.value].role = None
    THEN [status |-> 401, user |-> NoUser]
    ELSE [status |-> 0,
          user |-> [id |-> cred.value, email |-> cred.value,
                    role |-> tbl[cred.value].role,
                    full_name |-> cred.value]]

----------------------------------------------------------------------------
(* app/core/dependencies.py *)

(* A required query parameter, Query(...): FastAPI answers 422 when the    *)
(* request does not carry it.                                              *)
RequiredQuery(v) ==
    IF v = None THEN 422 ELSE 0

NoProfile == [id |-> None, role |-> None]

(* select("id, role").eq("id", user_id) *)
IdRole(tbl, id) ==
    [id |-> id, role |-> tbl[id].role]

(* require_admin_by_uuid *)
require_admin_by_uuid(user_id, tbl) ==
    IF Raises(tbl)
    THEN [status |-> 500, user |-> NoProfile]
    ELSE IF ProfileRows(tbl, user_id) = {}
    THEN [status |-> 403, user |-> NoProfile]
    ELSE IF tbl[user_id].role # "admin"
    THEN [status |-> 403, user |-> NoProfile]
    ELSE [status |-> 0, user |-> IdRole(tbl, user_id)]

(* require_teacher_by_uuid *)
require_teacher_by_uuid(user_id, tbl) ==
    IF Raises(tbl)
    THEN [status |-> 500, user |-> NoProfile]
    ELSE IF ProfileRows(tbl, user_id) = {}
    THEN [status |-> 403, user |-> NoProfile]
    ELSE IF tbl[user_id].role # "teacher"
    THEN [status |-> 403, user |-> NoProfile]
    ELSE [status |-> 0, user |-> IdRole(tbl, user_id)]

(* require_admin_or_teacher_by_uuid with the admin role left out of the     *)
(* accepted roles                                                          *)
require_admin_or_teacher_by_uuid_no_admin(user_id, tbl) ==
    IF ProfileRows(tbl, user_id) = {}
    THEN [status |-> 403, user |-> NoProfile]
    ELSE IF tbl[user_id].role \notin {"teacher"}
    THEN [status |-> 403, user |-> NoProfile]
    ELSE [status |-> 0, user |-> IdRole(tbl, user_id)]

(* require_admin_or_teacher_by_uuid *)
require_admin_or_teacher_by_uuid(user_id, tbl) ==
    IF Raises(tbl)
    THEN [status |-> 500, user |-> NoProfile]
    ELSE IF ProfileRows(tbl, user_id) = {}
    THEN [status |-> 403, user |-> NoProfile]
    ELSE IF tbl[user_id].role \notin {"admin", "teacher"}
    THEN [status |-> 403, user |-> NoProfile]
    ELSE [status |-> 0, user |-> IdRole(tbl, user_id)]

(* get_current_school_id *)
get_current_school_id(user_id, tbl) ==
    IF Raises(tbl)
    THEN [status |-> 500, school_id |-> None]
    ELSE IF ProfileRows(tbl, user_id) = {}
    THEN [status |-> 403, school_id |-> None]
    ELSE IF tbl[user_id].school_id = None
    THEN [status |-> 403, school_id |-> None]
    ELSE [status |-> 0, school_id |-> tbl[user_id].school_id]

(* get_school_id_for_user *)
get_school_id_for_user(user_id, tbl) ==
    IF Raises(tbl)
    THEN [status |-> 500, school_id |-> None]
    ELSE IF ProfileRows(tbl, user_id) = {}
    THEN [status |-> 403, school_id |-> None]
    ELSE IF tbl[user_id].school_id = None
    THEN [status |-> 403, school_id |-> None]
    ELSE [status |-> 0, school_id |-> tbl[user_id].school_id]

(* require_admin_or_teacher: get_current_user(user_id) on the str *)
require_admin_or_teacher(user_id, real_jwt, tbl) ==
    LET cu == get_current_user(StrCred(user_id), real_jwt, tbl) IN
    IF cu.status # 0 THEN cu
    ELSE IF cu.user.role \notin {"admin", "teacher"}
    THEN [status |-> 403, user |-> NoUser]
    ELSE cu

(* Depends(get_current_user): HTTPBearer answers 403 when the request has  *)
(* no Authorization: Bearer header, else get_current_user gets the token.  *)
current_user_dependency(bearer, real_jwt, tbl) ==
    IF bearer = "absent" THEN [status |-> 403, user |-> NoUser]
    ELSE get_current_user(BearerCred(bearer), real_jwt, tbl)

----------------------------------------------------------------------------
(* app/modules/classes/router.py *)

ClassIds == 1 .. MaxClasses

(* table("classes").select("*").eq("id", class_id) *)
ClassRows(tbl, class_id) ==
    IF class_id \in DOMAIN tbl
    THEN {[id |-> class_id,
           teacher_id |-> tbl[class_id].teacher_id,
           school_id |-> tbl[class_id].school_id]}
    ELSE {}

(* table("class_students").select(..).eq("class_id", c).eq("student_id", s) *)
Enrollment(class_id, student_id) ==
    [class_id |-> class_id, student_id |-> student_id]

EnrollmentRows(bag, class_id, student_id) ==
    IF BagIn(Enrollment(class_id, student_id), bag)
    THEN {Enrollment(class_id, student_id)}
    ELSE {}

(* table("class_students").select("class_id").eq("student_id", s) *)
EnrolledClassIds(bag, student_id) ==
    {e.class_id : e \in {x \in BagToSet(bag) : x.student_id = student_id}}

(* attach_students_to_class *)
attach_students_to_class(class_obj) ==
    LET student_ids ==
            {e.student_id :
                e \in {x \in BagToSet(class_students) : x.class_id = class_obj.id}}
    IN [id |-> class_obj.id,
        teacher_id |-> class_obj.teacher_id,
        school_id |-> class_obj.school_id,
        students |-> student_ids \cap DOMAIN profiles]

(* ClassResponse: id, name, school_id, created_at, updated_at are required *)
ClassResponseValid(row) ==
    row.school_id # None

(* the id uuid4() gives the next class *)
NewClassId == Cardinality(DOMAIN InitClasses) + class_seq + 1

(* create_class: the outcome for the caller admin_uid *)
create_class(teacher_id, admin_uid) ==
    LET q == RequiredQuery(admin_uid)
        g == require_admin_by_uuid(admin_uid, profiles)
        row == [id |-> NewClassId, teacher_id |-> teacher_id, school_id |-> None]
    IN IF q # 0 THEN [status |-> q, inserted |-> {}]
       ELSE IF g.status # 0 THEN [status |-> g.status, inserted |-> {}]
       ELSE IF ~ ClassResponseValid(row) THEN [status |-> 500, inserted |-> {row}]
       ELSE [status |-> 200, inserted |-> {row}]

(* get_classes *)
get_classes(uid) ==
    LET q == RequiredQuery(uid)
        g == require_admin_or_teacher_by_uuid(uid, profiles)
        all == UNION {ClassRows(classes, c) : c \in DOMAIN classes}
        enrolled == EnrolledClassIds(class_students, uid)
    IN IF q # 0 THEN [status |-> q, rows |-> {}]
       ELSE IF g.status # 0 THEN [status |-> g.status, rows |-> {}]
       ELSE IF g.user.role = "admin"
       THEN [status |-> 200, rows |-> {attach_students_to_class(c) : c \in all}]
       ELSE IF g.user.role = "teacher"
       THEN [status |-> 200,
             rows |-> {attach_students_to_class(c) :
                          c \in {x \in all : x.teacher_id = uid}}]
       ELSE [status |-> 200,
             rows |-> {attach_students_to_class(c) :
                          c \in {x \in all : x.id \in enrolled}}]

(* get_student_classes: no guard, no query parameter *)
get_student_classes(student_id) ==
    LET all == UNION {ClassRows(classes, c) : c \in DOMAIN classes}
        enrolled == EnrolledClassIds(class_students, student_id)
    IN [status |-> 200,
        rows |-> {attach_students_to_class(c) :
                     c \in {x \in all : x.id \in enrolled}}]

(* get_class *)
get_class(class_id, uid) ==
    LET q == RequiredQuery(uid)
        g == require_admin_or_teacher_by_uuid(uid, profiles)
        found == ClassRows(classes, class_id)
    IN IF q # 0 THEN [status |-> q, found |-> {}]
       ELSE IF g.status # 0 THEN [status |-> g.status, found |-> {}]
       ELSE IF found = {} THEN [status |-> 404, found |-> {}]
       ELSE IF g.user.role = "teacher" /\ \E c \in found : c.teacher_id # uid
       THEN [status |-> 403, found |-> found]
       ELSE IF /\ g.user.role = "student"
               /\ EnrollmentRows(class_students, class_id, uid) = {}
       THEN [status |-> 403, found |-> found]
       ELSE [status |-> 200, found |-> found]

(* update_class: the update runs before the 404 and the response model *)
update_class(class_id, teacher_id, admin_uid) ==
    LET q == RequiredQuery(admin_uid)
        g == require_admin_by_uuid(admin_uid, profiles)
        found == ClassRows(classes, class_id)
    IN IF q # 0 THEN [status |-> q, found |-> {}]
       ELSE IF g.status # 0 THEN [status |-> g.status, found |-> {}]
       ELSE IF found = {} THEN [status |-> 404, found |-> {}]
       ELSE IF \E c \in found : ~ ClassResponseValid(c)
       THEN [status |-> 500, found |-> found]
       ELSE [status |-> 200, found |-> found]

(* delete_class *)
delete_class(class_id, admin_uid) ==
    LET q == RequiredQuery(admin_uid)
        g == require_admin_by_uuid(admin_uid, profiles)
        found == ClassRows(classes, class_id)
    IN IF q # 0 THEN [status |-> q, found |-> {}]
       ELSE IF g.status # 0 THEN [status |-> g.status, found |-> {}]
       ELSE IF found = {} THEN [status |-> 404, found |-> {}]
       ELSE [status |-> 200, found |-> found]

(* add_student_to_class *)
add_student_to_class(class_id, student_id, uid) ==
    LET q == RequiredQuery(uid)
        g == require_admin_or_teacher_by_uuid(uid, profiles)
        found == ClassRows(classes, class_id)
    IN IF q # 0 THEN [status |-> q, found |-> {}]
       ELSE IF g.status # 0 THEN [status |-> g.status, found |-> {}]
       ELSE IF found = {} THEN [status |-> 404, found |-> {}]
       ELSE IF g.user.role = "teacher" /\ \E c \in found : c.teacher_id # uid
       THEN [status |-> 403, found |-> found]
       ELSE IF EnrollmentRows(class_students, class_id, student_id) # {}
       THEN [status |-> 400, found |-> found]
       ELSE [status |-> 200, found |-> found]

(* remove_student_from_class *)
remove_student_from_class(class_id, student_id, uid) ==
    LET q == RequiredQuery(uid)
        g == require_admin_or_teacher_by_uuid(uid, profiles)
        found == ClassRows(classes, class_id)
    IN IF q # 0 THEN [status |-> q, found |-> {}]
       ELSE IF g.status # 0 THEN [status |-> g.status, found |-> {}]
       ELSE IF found = {} THEN [status |-> 404, found |-> {}]
       ELSE IF g.user.role = "teacher" /\ \E c \in found : c.teacher_id # uid
       THEN [status |-> 403, found |-> found]
       ELSE IF EnrollmentRows(class_students, class_id, student_id) = {}
       THEN [status |-> 404, found |-> found]
       ELSE [status |-> 200, found |-> found]

----------------------------------------------------------------------------
(* app/modules/assignments/router.py, submissions/router.py,              *)
(* grades/router.py: handlers whose caller comes from                      *)
(* Depends(get_current_school_id) on the user_id query parameter and from  *)
(* Depends(get_current_user) on the bearer header, or from                 *)
(* Depends(require_admin_or_teacher) on the same user_id.                  *)

(* FastAPI solves the dependencies in parameter order: a dependency whose  *)
(* query parameter is missing is skipped and reported (422) after the      *)
(* others ran; one that raises ends the request at once.                   *)
SchoolAndUser(user_id, bearer) ==
    LET q == RequiredQuery(user_id)
        s == get_current_school_id(user_id, profiles)
        u == current_user_dependency(bearer, USE_REAL_JWT, profiles)
    IN IF q = 0 /\ s.status # 0
       THEN [status |-> s.status, school_id |-> None, user |-> NoUser]
       ELSE IF u.status # 0
       THEN [status |-> u.status, school_id |-> None, user |-> NoUser]
       ELSE IF q # 0
       THEN [status |-> q, school_id |-> None, user |-> NoUser]
       ELSE [status |-> 0, school_id |-> s.school_id, user |-> u.user]

SchoolAndAdminOrTeacher(user_id) ==
    LET q == RequiredQuery(user_id)
        s == get_current_school_id(user_id, profiles)
        g == require_admin_or_teacher(user_id, USE_REAL_JWT, profiles)
    IN IF q # 0
       THEN [status |-> q, school_id |-> None, user |-> NoUser]
       ELSE IF s.status # 0
       THEN [status |-> s.status, school_id |-> None, user |-> NoUser]
       ELSE IF g.status # 0
       THEN [status |-> g.status, school_id |-> None, user |-> NoUser]
       ELSE [status |-> 0, school_id |-> s.school_id, user |-> g.user]

(* table("classes").select("*").eq("id", class_id).eq("school_id", s) *)
ClassRowsInSchool(class_id, school_id) ==
    {c \in ClassRows(classes, class_id) : c.school_id = school_id}

(* table("assignments").select("*, classes(teacher_id)").eq("id", a)       *)
(*     .eq("school_id", s): the row with the joined row of its class       *)
AssignmentRows(assignment_id, school_id) ==
    IF /\ assignment_id \in DOMAIN assignments
       /\ assignments[assignment_id].school_id = school_id
    THEN {[id |-> assignment_id,
           class_id |-> assignments[assignment_id].class_id,
           created_by |-> assignments[assignment_id].created_by,
           school_id |-> assignments[assignment_id].school_id,
           classes |->
               ClassRows(classes, assignments[assignment_id].class_id)]}
    ELSE {}

(* table("assignments").select("*").eq("class_id", c).eq("school_id", s) *)
ClassAssignmentRows(class_id, school_id) ==
    {[id |-> a,
      class_id |-> assignments[a].class_id,
      created_by |-> assignments[a].created_by,
      school_id |-> assignments[a].school_id] :
        a \in {x \in DOMAIN assignments :
                  /\ assignments[x].class_id = class_id
                  /\ assignments[x].school_id = school_id}}

NewAssignmentId == Cardinality(DOMAIN assignments) + 1

(* create_assignment *)
create_assignment(class_id, user_id) ==
    LET d == SchoolAndAdminOrTeacher(user_id)
        found == ClassRowsInSchool(class_id, d.school_id)
    IN IF d.status # 0 THEN [status |-> d.status, dep |-> d, inserted |-> {}]
       ELSE IF found = {} THEN [status |-> 404, dep |-> d, inserted |-> {}]
       ELSE IF /\ d.user.role = "teacher"
               /\ \E c \in found : c.teacher_id # d.user.id
       THEN [status |-> 403, dep |-> d, inserted |-> {}]
       ELSE [status |-> 200, dep |-> d,
             inserted |-> {[id |-> NewAssignmentId, class_id |-> class_id,
                            created_by |-> d.user.id,
                            school_id |-> d.school_id]}]

(* get_class_assignments *)
get_class_assignments(class_id, user_id, bearer) ==
    LET d == SchoolAndUser(user_id, bearer)
        found == ClassRowsInSchool(class_id, d.school_id)
    IN IF d.status # 0 THEN [status |-> d.status, dep |-> d, rows |-> {}]
       ELSE IF found = {} THEN [status |-> 404, dep |-> d, rows |-> {}]
       ELSE IF /\ d.user.role = "student"
               /\ EnrollmentRows(class_students, class_id, d.user.id) = {}
       THEN [status |-> 403, dep |-> d, rows |-> {}]
       ELSE IF /\ d.user.role = "teacher"
               /\ \E c \in found : c.teacher_id # d.user.id
       THEN [status |-> 403, dep |-> d, rows |-> {}]
       ELSE [status |-> 200, dep |-> d,
             rows |-> ClassAssignmentRows(class_id, d.school_id)]

(* update_assignment *)
update_assignment(assignment_id, user_id) ==
    LET d == SchoolAndAdminOrTeacher(user_id)
        existing == AssignmentRows(assignment_id, d.school_id)
    IN IF d.status # 0 THEN [status |-> d.status, dep |-> d, found |-> {}]
       ELSE IF existing = {} THEN [status |-> 404, dep |-> d, found |-> {}]
       ELSE IF \E a \in existing : a.classes = {}
       THEN [status |-> 500, dep |-> d, found |-> existing]
       ELSE IF /\ d.user.role = "teacher"
               /\ \E a \in existing : \E c \in a.classes :
                      c.teacher_id # d.user.id
       THEN [status |-> 403, dep |-> d, found |-> existing]
       ELSE [status |-> 200, dep |-> d, found |-> existing]

(* table("submissions").select("*").eq("assignment_id", a)                 *)
(*     .eq("student_id", s) *)
SubmissionRows(assignment_id, student_id) ==
    {x \in BagToSet(submissions) :
        x.assignment_id = assignment_id /\ x.student_id = student_id}

(* submit_assignment *)
submit_assignment(assignment_id, class_id, user_id, bearer) ==
    LET d == SchoolAndUser(user_id, bearer)
        found == AssignmentRows(assignment_id, d.school_id)
        row == [assignment_id |-> assignment_id, class_id |-> class_id,
                student_id |-> d.user.id, school_id |-> d.school_id]
    IN IF d.status # 0 THEN [status |-> d.status, dep |-> d, inserted |-> {}]
       ELSE IF d.user.role # "student"
       THEN [status |-> 403, dep |-> d, inserted |-> {}]
       ELSE IF found = {} THEN [status |-> 404, dep |-> d, inserted |-> {}]
       ELSE IF \E a \in found : a.class_id # class_id
       THEN [status |-> 400, dep |-> d, inserted |-> {}]
       ELSE IF EnrollmentRows(class_students, class_id, d.user.id) = {}
       THEN [status |-> 403, dep |-> d, inserted |-> {}]
       ELSE IF SubmissionRows(assignment_id, d.user.id) # {}
       THEN [status |-> 400, dep |-> d, inserted |-> {}]
       ELSE [status |-> 200, dep |-> d, inserted |-> {row}]

(* get_my_submissions *)
get_my_submissions(user_id, bearer) ==
    LET d == SchoolAndUser(user_id, bearer) IN
    IF d.status # 0 THEN [status |-> d.status, dep |-> d, rows |-> {}]
    ELSE IF d.user.role # "student"
    THEN [status |-> 403, dep |-> d, rows |-> {}]
    ELSE [status |-> 200, dep |-> d,
          rows |-> {x \in BagToSet(submissions) :
                       /\ x.student_id = d.user.id
                       /\ x.school_id = d.school_id}]

(* get_my_grades: the handler's except Exception turns its own 403 into    *)
(* 400; grade_submission is the only writer of the grades table.           *)
get_my_grades(user_id, bearer) ==
    LET d == SchoolAndUser(user_id, bearer) IN
    IF d.status # 0 THEN [status |-> d.status, dep |-> d, rows |-> {}]
    ELSE IF d.user.role # "student"
    THEN [status |-> 400, dep |-> d, rows |-> {}]
    ELSE [status |-> 200, dep |-> d, rows |-> {}]

----------------------------------------------------------------------------
(* app/modules/attendance/router.py: every handler has                     *)
(* Depends(require_admin_or_teacher_by_uuid) on the user_id query parameter *)

AdminOrTeacherByUuid(user_id) ==
    LET q == RequiredQuery(user_id)
        g == require_admin_or_teacher_by_uuid(user_id, profiles)
    IN IF q # 0 THEN [status |-> q, user |-> NoProfile] ELSE g

(* one AttendanceCreate body *)
AttendanceCreate(class_id, student_id, date, status) ==
    [class_id |-> class_id, student_id |-> student_id, date |-> date,
     status |-> status]

(* the same query finding no row *)
AttendanceExistingNone(tbl, class_id, student_id, date) ==
    {a \in DOMAIN tbl : FALSE}

(* table("attendance").select("id").eq("class_id", c).eq("student_id", s)  *)
(*     .eq("date", d) *)
AttendanceExisting(tbl, class_id, student_id, date) ==
    {a \in DOMAIN tbl :
        /\ tbl[a].class_id = class_id
        /\ tbl[a].student_id = student_id
        /\ tbl[a].date = date}

(* status_str = "present" if attendance.status else "absent": the status   *)
(* is one of the strings "present", "absent", "late", none of them empty   *)
status_str(status) ==
    IF status # "" THEN "present" ELSE "absent"

(* the checks mark_attendance and mark_bulk_attendance make on one item *)
mark_one(tbl, item, user) ==
    LET found == ClassRows(classes, item.class_id) IN
    IF found = {} THEN "not_found"
    ELSE IF user.role = "teacher" /\ \E c \in found : c.teacher_id # user.id
    THEN "denied"
    ELSE IF AttendanceExisting(tbl, item.class_id, item.student_id,
                               item.date) # {}
    THEN "exists"
    ELSE "ok"

(* attendance_data: no school_id among its columns *)
attendance_data(item, user) ==
    [class_id |-> item.class_id, student_id |-> item.student_id,
     date |-> item.date, status |-> status_str(item.status),
     marked_by |-> user.id]

InsertAttendance(tbl, id, row) ==
    [a \in DOMAIN tbl \cup {id} |-> IF a = id THEN row ELSE tbl[a]]

(* mark_attendance *)
mark_attendance(item, user_id) ==
    LET g == AdminOrTeacherByUuid(user_id)
        o == mark_one(attendance, item, g.user)
    IN IF g.status # 0 THEN [status |-> g.status, inserted |-> {}]
       ELSE IF o = "not_found" THEN [status |-> 404, inserted |-> {}]
       ELSE IF o = "denied" THEN [status |-> 403, inserted |-> {}]
       ELSE IF o = "exists" THEN [status |-> 400, inserted |-> {}]
       ELSE [status |-> 200, inserted |-> {attendance_data(item, g.user)}]

(* the loop of mark_bulk_attendance over bulk_data.attendances *)
RECURSIVE bulk_loop(_, _, _, _)
bulk_loop(items, tbl, seq, user) ==
    IF items = <<>>
    THEN [tbl |-> tbl, seq |-> seq, responses |-> 0, errors |-> 0]
    ELSE IF mark_one(tbl, Head(items), user) = "ok"
    THEN LET r == bulk_loop(Tail(items),
                            InsertAttendance(tbl, seq + 1,
                                attendance_data(Head(items), user)),
                            seq + 1, user)
         IN [r EXCEPT !.responses = @ + 1]
    ELSE LET r == bulk_loop(Tail(items), tbl, seq, user)
         IN [r EXCEPT !.errors = @ + 1]

(* mark_bulk_attendance *)
mark_bulk_attendance(items, user_id) ==
    LET g == AdminOrTeacherByUuid(user_id)
        r == bulk_loop(items, attendance, att_seq, g.user)
    IN IF g.status # 0
       THEN [status |-> g.status, tbl |-> attendance, seq |-> att_seq]
       ELSE IF r.responses = 0 /\ r.errors > 0
       THEN [status |-> 400, tbl |-> r.tbl, seq |-> r.seq]
       ELSE [status |-> 200, tbl |-> r.tbl, seq |-> r.seq]

(* table("attendance").select("id, classes(teacher_id)").eq("id", a) *)
AttendanceRows(attendance_id) ==
    IF attendance_id \in DOMAIN attendance
    THEN {[id |-> attendance_id,
           classes |-> ClassRows(classes, attendance[attendance_id].class_id)]}
    ELSE {}

(* update_attendance and delete_attendance make the same checks *)
attendance_write(attendance_id, user_id) ==
    LET g == AdminOrTeacherByUuid(user_id)
        existing == AttendanceRows(attendance_id)
    IN IF g.status # 0 THEN [status |-> g.status, found |-> {}]
       ELSE IF existing = {} THEN [status |-> 404, found |-> {}]
       ELSE IF \E a \in existing : a.classes = {}
       THEN [status |-> 500, found |-> {}]
       ELSE IF /\ g.user.role = "teacher"
               /\ \E a \in existing : \E c \in a.classes :
                      c.teacher_id # g.user.id
       THEN [status |-> 403, found |-> UNION {a.classes : a \in existing}]
       ELSE [status |-> 200, found |-> UNION {a.classes : a \in existing}]

----------------------------------------------------------------------------
(* app/schemas/auth.py *)

\* UserResponse built from a dict: the fields of the model; extra keys are
\* ignored, a missing required field (id, role) is a ValidationError.
UserResponseFields == {"id", "email", "role", "full_name", "school_id", "school_name"}
UserResponseRequired == {"id", "role"}

UserResponseValid(data) ==
    UserResponseRequired \subseteq DOMAIN data

UserResponse(data) ==
    [k \in UserResponseFields |-> IF k \in DOMAIN data THEN data[k] ELSE None]

----------------------------------------------------------------------------
(* The response record *)

NoHeader == [scheme |-> "none", token |-> NoToken]
Bearer(t) == [scheme |-> "bearer", token |-> t]

NoResp ==
    [op |-> "none", status |-> 0,
     user_id |-> None,      \* the user_id / uid query parameter
     sub |-> None,          \* the sub of the bearer JWT
     token |-> NoToken,     \* the session token presented or returned
     entry |-> {},          \* the session entry the token had on arrival
     cached_uid |-> None,   \* what the session cache answered
     user |-> {},           \* the user dict the resolver or guard returned
     body |-> {},           \* the dict returned to the client
     class_id |-> 0,        \* the class the request names
     school_id |-> None,    \* what get_current_school_id returned
     found |-> {},          \* the target row as the handler read it
     rows |-> {},           \* the rows of a list response
     inserted |-> {},       \* the rows the handler inserted
     target |-> None,       \* the user the path names
     raised |-> 0,          \* the HTTPException raised inside the handler
     item |-> {},           \* the request body
     existing |-> {},       \* the rows with the body's key before the call
     store |-> "up"]        \* whether the profile store answered

----------------------------------------------------------------------------
(* app/modules/auth/router.py and the session cache's own operations *)

Tick(d) ==
    /\ ticks < MaxTicks
    /\ now' = now + d
    /\ ticks' = ticks + 1
    /\ resp' = NoResp
    /\ UNCHANGED <<USE_REAL_JWT, sessions, issued, storeVars, inflight>>

(* uuid4(): a token that was never handed out before *)
FreshToken == Cardinality(DOMAIN issued) + 1

(* session_cache.create_session(user_id, ttl) called on its own *)
CreateSession(u, ttl) ==
    /\ FreshToken \in Tokens
    /\ sessions' = create_session(sessions, FreshToken, u, ttl, now)
    /\ issued' = create_session(issued, FreshToken, u, ttl, now)
    /\ resp' = [NoResp EXCEPT !.op = "create_session", !.user_id = u,
                              !.token = FreshToken]
    /\ UNCHANGED <<USE_REAL_JWT, now, ticks, storeVars, inflight>>

(* session_cache.get_user_id_for_token(token) called on its own *)
GetUserIdForToken(t) ==
    LET r == get_user_id_for_token(sessions, t, now) IN
    /\ sessions' = r.map
    /\ resp' = [NoResp EXCEPT !.op = "get_user_id_for_token", !.token = t,
                              !.entry = SessionRows(sessions, t),
                              !.cached_uid = r.result]
    /\ UNCHANGED <<USE_REAL_JWT, issued, now, ticks, storeVars, inflight>>

(* session_cache.invalidate_session(token) *)
InvalidateSession(t) ==
    /\ sessions' = invalidate_session(sessions, t)
    /\ resp' = [NoResp EXCEPT !.op = "invalidate_session", !.token = t,
                              !.entry = SessionRows(sessions, t)]
    /\ UNCHANGED <<USE_REAL_JWT, issued, now, ticks, storeVars, inflight>>

(* session_cache.clear_expired() *)
ClearExpired ==
    /\ sessions' = clear_expired(sessions, now)
    /\ resp' = [NoResp EXCEPT !.op = "clear_expired"]
    /\ UNCHANGED <<USE_REAL_JWT, issued, now, ticks, storeVars, inflight>>

(* a sign-in that returns the user whatever the account and the password *)
sign_in_any(accounts, u, ok) ==
    u

(* auth.sign_in_with_password: the user the identity provider returns for  *)
(* a registered email and the right password (ok); it raises otherwise.    *)
sign_in_with_password(accounts, u, ok) ==
    IF u \in accounts /\ ok THEN u ELSE None

(* POST /auth/login: 401 when the provider raises or returns no user; the  *)
(* update of last_login changes nothing the model keeps.                   *)
Login(u, ok) ==
    LET uid == sign_in_with_password(auth_users, u, ok) IN
    /\ uid # None => FreshToken \in Tokens
    /\ IF uid # None
       THEN /\ sessions' = create_session(sessions, FreshToken, uid,
                                          DEFAULT_TTL, now)
            /\ issued' = create_session(issued, FreshToken, uid,
                                        DEFAULT_TTL, now)
            /\ resp' = [NoResp EXCEPT !.op = "login", !.status = 200,
                                      !.user_id = u, !.token = FreshToken,
                                      !.body = {[user_id |-> uid]}]
       ELSE /\ resp' = [NoResp EXCEPT !.op = "login", !.status = 401,
                                      !.user_id = u]
            /\ UNCHANGED <<sessions, issued>>
    /\ UNCHANGED <<USE_REAL_JWT, now, ticks, storeVars, inflight>>

(* signup: what the handler has done when it answers.  The model's ids are *)
(* the emails, so the profile looked up by the new user's id (77-83) is    *)
(* the one looked up by email (53-58).  sign_up raises for an email the    *)
(* provider already has, which the handler answers with 400.               *)
(*   status     the answer                                                 *)
(*   registered whether sign_up created the auth user                      *)
(*   school     the school row inserted                                    *)
(*   profile    the profile row inserted                                   *)
signup(u, school_name, role, tbl, accounts, names) ==
    LET role_to_set == IF role = None THEN "admin" ELSE role
        none == [status |-> 400, registered |-> FALSE,
                 school |-> {}, profile |-> {}]
    IN
    IF ProfileRows(tbl, u) # {} THEN none
    ELSE IF u \in accounts THEN none
    ELSE IF school_name # None /\ school_name \in names
    THEN [none EXCEPT !.registered = TRUE]
    ELSE [status |-> 200, registered |-> TRUE,
          school |-> IF school_name = None THEN {} ELSE {school_name},
          profile |-> {[role |-> role_to_set, school_id |-> school_name]}]

(* POST /auth/signup *)
Signup(u, school_name, role) ==
    LET r == signup(u, school_name, role, profiles, auth_users, schools) IN
    /\ r.status = 200 => FreshToken \in Tokens
    /\ auth_users' = IF r.registered THEN auth_users \cup {u} ELSE auth_users
    /\ schools' = schools \cup r.school
    /\ profiles' =
          IF r.profile = {} THEN profiles
          ELSE [x \in DOMAIN profiles \cup {u} |->
                   IF x = u
                   THEN [role |-> IF role = None THEN "admin" ELSE role,
                         school_id |-> school_name]
                   ELSE profiles[x]]
    /\ IF r.status = 200
       THEN /\ sessions' = create_session(sessions, FreshToken, u,
                                          DEFAULT_TTL, now)
            /\ issued' = create_session(issued, FreshToken, u,
                                        DEFAULT_TTL, now)
            /\ resp' = [NoResp EXCEPT !.op = "signup", !.status = 200,
                                      !.user_id = u, !.token = FreshToken,
                                      !.inserted = r.profile,
                                      !.body = {[user_id |-> u]}]
       ELSE /\ resp' = [NoResp EXCEPT !.op = "signup", !.status = r.status,
                                      !.user_id = u,
                                      !.found = ProfileRows(profiles, u)]
            /\ UNCHANGED <<sessions, issued>>
    /\ UNCHANGED <<USE_REAL_JWT, now, ticks, classes, class_seq,
                   class_students, assignments, submissions, attVars,
                   inflight>>

(* user_data = dict(user); user_data['user_id'] = user_data.pop('id') *)
RenameId(user) ==
    [k \in (DOMAIN user \ {"id"}) \cup {"user_id"} |->
        IF k = "user_id" THEN user["id"] ELSE user[k]]

(* GET /auth/me *)
Me(user_id, authorization) ==
    LET looked == authorization.scheme = "bearer"
        r == IF looked
             THEN get_user_id_for_token(sessions, authorization.token, now)
             ELSE [result |-> None, map |-> sessions]
        uid == IF r.result # None THEN r.result ELSE user_id
        cu == get_current_user(StrCred(uid), USE_REAL_JWT, profiles)
        data == RenameId(cu.user)
        st == IF uid \in {None, ""} THEN 401
              ELSE IF cu.status # 0 THEN cu.status
              ELSE IF ~ UserResponseValid(data) THEN 500
              ELSE 200
    IN
    /\ sessions' = r.map
    /\ resp' = [NoResp EXCEPT
                  !.op = "me", !.status = st, !.user_id = user_id,
                  !.token = authorization.token,
                  !.entry = SessionRows(sessions, authorization.token),
                  !.cached_uid = r.result,
                  !.user = IF uid \notin {None, ""} /\ cu.status = 0
                           THEN {cu.user} ELSE {},
                  !.body = IF st = 200 THEN {UserResponse(data)} ELSE {}]
    /\ UNCHANGED <<USE_REAL_JWT, issued, now, ticks, storeVars, inflight>>

----------------------------------------------------------------------------

----------------------------------------------------------------------------
(* The classes router's handlers as steps *)

authVars == <<USE_REAL_JWT, cacheVars>>

(* POST /classes/ *)
CreateClass(teacher_id, admin_uid) ==
    LET r == create_class(teacher_id, admin_uid) IN
    /\ NewClassId \in ClassIds
    /\ classes' =
          IF r.inserted = {} THEN classes
          ELSE [c \in DOMAIN classes \cup {NewClassId} |->
                   IF c = NewClassId
                   THEN [teacher_id |-> teacher_id, school_id |-> None]
                   ELSE classes[c]]
    /\ class_seq' = IF r.inserted = {} THEN class_seq ELSE class_seq + 1
    /\ resp' = [NoResp EXCEPT !.op = "create_class", !.status = r.status,
                              !.user_id = admin_uid, !.inserted = r.inserted]
    /\ UNCHANGED <<authVars, idpVars, attVars, inflight, profiles, class_students, assignments, submissions>>

(* GET /classes/ *)
GetClasses(uid) ==
    LET r == get_classes(uid) IN
    /\ resp' = [NoResp EXCEPT !.op = "get_classes", !.status = r.status,
                              !.user_id = uid, !.rows = r.rows]
    /\ UNCHANGED <<authVars, storeVars, inflight>>

(* GET /classes/student/{student_id} *)
GetStudentClasses(student_id) ==
    LET r == get_student_classes(student_id) IN
    /\ resp' = [NoResp EXCEPT !.op = "get_student_classes",
                              !.status = r.status, !.target = student_id,
                              !.rows = r.rows]
    /\ UNCHANGED <<authVars, storeVars, inflight>>

(* GET /classes/{class_id} *)
GetClass(class_id, uid) ==
    LET r == get_class(class_id, uid) IN
    /\ resp' = [NoResp EXCEPT !.op = "get_class", !.status = r.status,
                              !.user_id = uid, !.class_id = class_id,
                              !.found = ClassRows(classes, class_id)]
    /\ UNCHANGED <<authVars, storeVars, inflight>>

(* PUT /classes/{class_id} *)
UpdateClass(class_id, teacher_id, admin_uid) ==
    LET r == update_class(class_id, teacher_id, admin_uid) IN
    /\ classes' =
          IF r.found = {} \/ teacher_id = None THEN classes
          ELSE [classes EXCEPT ![class_id].teacher_id = teacher_id]
    /\ resp' = [NoResp EXCEPT !.op = "update_class", !.status = r.status,
                              !.user_id = admin_uid, !.class_id = class_id,
                              !.found = ClassRows(classes, class_id)]
    /\ UNCHANGED <<authVars, idpVars, attVars, inflight, profiles, class_seq, class_students, assignments,
                   submissions>>

(* DELETE /classes/{class_id} *)
DeleteClass(class_id, admin_uid) ==
    LET r == delete_class(class_id, admin_uid) IN
    /\ classes' =
          IF r.status # 200 THEN classes
          ELSE [c \in DOMAIN classes \ {class_id} |-> classes[c]]
    /\ resp' = [NoResp EXCEPT !.op = "delete_class", !.status = r.status,
                              !.user_id = admin_uid, !.class_id = class_id,
                              !.found = ClassRows(classes, class_id)]
    /\ UNCHANGED <<authVars, idpVars, attVars, inflight, profiles, class_seq, class_students, assignments,
                   submissions>>

(* POST /classes/{class_id}/students *)
AddStudentToClass(class_id, student_id, uid) ==
    LET r == add_student_to_class(class_id, student_id, uid) IN
    /\ class_students' =
          IF r.status # 200 THEN class_students
          ELSE class_students (+) SetToBag({Enrollment(class_id, student_id)})
    /\ resp' = [NoResp EXCEPT !.op = "add_student_to_class",
                              !.status = r.status,
                              !.user_id = uid, !.class_id = class_id,
                              !.found = ClassRows(classes, class_id),
                              !.inserted =
                                  IF r.status # 200 THEN {}
                                  ELSE {Enrollment(class_id, student_id)}]
    /\ UNCHANGED <<authVars, idpVars, attVars, inflight, profiles, classes, class_seq, assignments,
                   submissions>>

(* DELETE /classes/{class_id}/students/{student_id} *)
RemoveStudentFromClass(class_id, student_id, uid) ==
    LET r == remove_student_from_class(class_id, student_id, uid) IN
    /\ class_students' =
          IF r.status # 200 THEN class_students
          ELSE [e \in BagToSet(class_students)
                        \ {Enrollment(class_id, student_id)} |->
                   class_students[e]]
    /\ resp' = [NoResp EXCEPT !.op = "remove_student_from_class",
                              !.status = r.status,
                              !.user_id = uid, !.class_id = class_id,
                              !.found = ClassRows(classes, class_id)]
    /\ UNCHANGED <<authVars, idpVars, attVars, inflight, profiles, classes, class_seq, assignments,
                   submissions>>

----------------------------------------------------------------------------
(* The assignments, submissions and grades handlers as steps *)

(* the response fields every one of these handlers records *)
WorkResp(op, user_id, bearer, r) ==
    [NoResp EXCEPT !.op = op, !.status = r.status, !.user_id = user_id,
                   !.sub = bearer, !.school_id = r.dep.school_id,
                   !.user = IF r.dep.status = 0 THEN {r.dep.user} ELSE {}]

(* POST /assignments/ *)
CreateAssignment(class_id, user_id) ==
    LET r == create_assignment(class_id, user_id) IN
    /\ NewAssignmentId <= MaxAssignments
    /\ assignments' =
          IF r.inserted = {} THEN assignments
          ELSE [a \in DOMAIN assignments \cup {NewAssignmentId} |->
                   IF a = NewAssignmentId
                   THEN [class_id |-> class_id, created_by |-> r.dep.user.id,
                         school_id |-> r.dep.school_id]
                   ELSE assignments[a]]
    /\ resp' = [WorkResp("create_assignment", user_id, None, r)
                   EXCEPT !.class_id = class_id, !.inserted = r.inserted,
                          !.found = ClassRows(classes, class_id)]
    /\ UNCHANGED <<authVars, idpVars, attVars, inflight, profiles, classes, class_seq, class_students,
                   submissions>>

(* GET /assignments/class/{class_id} *)
GetClassAssignments(class_id, user_id, bearer) ==
    LET r == get_class_assignments(class_id, user_id, bearer) IN
    /\ resp' = [WorkResp("get_class_assignments", user_id, bearer, r)
                   EXCEPT !.class_id = class_id, !.rows = r.rows,
                          !.found = ClassRows(classes, class_id)]
    /\ UNCHANGED <<authVars, storeVars, inflight>>

(* PUT /assignments/{assignment_id}: the body changes title, description,  *)
(* due_date, file_url, total_points, none of them a column kept here.      *)
UpdateAssignment(assignment_id, user_id) ==
    LET r == update_assignment(assignment_id, user_id) IN
    /\ resp' = [WorkResp("update_assignment", user_id, None, r)
                   EXCEPT !.found =
                       UNION {ClassRows(classes, assignments[a].class_id) :
                                 a \in DOMAIN assignments \cap {assignment_id}}]
    /\ UNCHANGED <<authVars, storeVars, inflight>>

(* POST /submissions/ *)
SubmitAssignment(assignment_id, class_id, user_id, bearer) ==
    LET r == submit_assignment(assignment_id, class_id, user_id, bearer) IN
    /\ submissions' = submissions (+) SetToBag(r.inserted)
    /\ resp' = [WorkResp("submit_assignment", user_id, bearer, r)
                   EXCEPT !.class_id = class_id, !.inserted = r.inserted]
    /\ UNCHANGED <<authVars, idpVars, attVars, inflight, profiles, classes, class_seq, class_students,
                   assignments>>

(* GET /submissions/my *)
GetMySubmissions(user_id, bearer) ==
    LET r == get_my_submissions(user_id, bearer) IN
    /\ resp' = [WorkResp("get_my_submissions", user_id, bearer, r)
                   EXCEPT !.rows = r.rows]
    /\ UNCHANGED <<authVars, storeVars, inflight>>

(* GET /grades/my *)
GetMyGrades(user_id, bearer) ==
    LET r == get_my_grades(user_id, bearer) IN
    /\ resp' = [WorkResp("get_my_grades", user_id, bearer, r)
                   EXCEPT !.rows = r.rows]
    /\ UNCHANGED <<authVars, storeVars, inflight>>

----------------------------------------------------------------------------
(* The attendance router's handlers as steps *)

(* POST /attendance/ *)
MarkAttendance(item, user_id) ==
    LET r == mark_attendance(item, user_id) IN
    /\ att_seq < MaxAttendance
    /\ attendance' =
          IF r.inserted = {} THEN attendance
          ELSE InsertAttendance(attendance, att_seq + 1,
                                CHOOSE x \in r.inserted : TRUE)
    /\ att_seq' = IF r.inserted = {} THEN att_seq ELSE att_seq + 1
    /\ resp' = [NoResp EXCEPT !.op = "mark_attendance", !.status = r.status,
                              !.user_id = user_id,
                              !.class_id = item.class_id,
                              !.found = ClassRows(classes, item.class_id),
                              !.item = {item},
                              !.existing =
                                  AttendanceExisting(attendance, item.class_id,
                                      item.student_id, item.date),
                              !.inserted = r.inserted]
    /\ UNCHANGED <<authVars, idpVars, inflight, profiles, classes, class_seq,
                   class_students, assignments, submissions>>

(* POST /attendance/bulk *)
MarkBulkAttendance(items, user_id) ==
    LET r == mark_bulk_attendance(items, user_id) IN
    /\ att_seq + Len(items) <= MaxAttendance
    /\ attendance' = r.tbl
    /\ att_seq' = r.seq
    /\ resp' = [NoResp EXCEPT !.op = "mark_bulk_attendance",
                              !.status = r.status, !.user_id = user_id,
                              !.found =
                                  UNION {ClassRows(classes, items[i].class_id) :
                                            i \in DOMAIN items},
                              !.inserted =
                                  {r.tbl[a] : a \in DOMAIN r.tbl
                                                    \ DOMAIN attendance}]
    /\ UNCHANGED <<authVars, idpVars, inflight, profiles, classes, class_seq,
                   class_students, assignments, submissions>>

(* PUT /attendance/{attendance_id} *)
UpdateAttendance(attendance_id, status, user_id) ==
    LET r == attendance_write(attendance_id, user_id) IN
    /\ attendance' =
          IF r.status # 200 THEN attendance
          ELSE [attendance EXCEPT ![attendance_id].status = status]
    /\ resp' = [NoResp EXCEPT !.op = "update_attendance", !.status = r.status,
                              !.user_id = user_id, !.found = r.found,
                              !.existing = DOMAIN attendance \cap {attendance_id}]
    /\ UNCHANGED <<authVars, idpVars, inflight, profiles, classes, class_seq,
                   class_students, assignments, submissions, att_seq>>

(* DELETE /attendance/{attendance_id} *)
DeleteAttendance(attendance_id, user_id) ==
    LET r == attendance_write(attendance_id, user_id) IN
    /\ attendance' =
          IF r.status # 200 THEN attendance
          ELSE [a \in DOMAIN attendance \ {attendance_id} |-> attendance[a]]
    /\ resp' = [NoResp EXCEPT !.op = "delete_attendance", !.status = r.status,
                              !.user_id = user_id, !.found = r.found,
                              !.existing = DOMAIN attendance \cap {attendance_id}]
    /\ UNCHANGED <<authVars, idpVars, inflight, profiles, classes, class_seq,
                   class_students, assignments, submissions, att_seq>>

(* update_attendance on a worker thread: the handler is a plain def, and   *)
(* another request can run between its select and its update.  This step   *)
(* is the request up to the ownership check (282-296).                     *)
UpdateAttendanceCheck(w, attendance_id, status, user_id) ==
    LET r == attendance_write(attendance_id, user_id) IN
    /\ inflight[w] = Idle
    /\ inflight' =
          IF r.status # 200 THEN inflight
          ELSE [inflight EXCEPT ![w] =
                   [op |-> "update_attendance", id |-> attendance_id,
                    status |-> status, uid |-> user_id, found |-> r.found]]
    /\ resp' =
          IF r.status = 200 THEN NoResp
          ELSE [NoResp EXCEPT !.op = "update_attendance",
                              !.status = r.status, !.user_id = user_id,
                              !.found = r.found,
                              !.existing =
                                  DOMAIN attendance \cap {attendance_id}]
    /\ UNCHANGED <<authVars, storeVars>>

(* the update and the response (298-309): AttendanceResponse is built from *)
(* result.data[0], an IndexError when the update matched no row, which the *)
(* handler's `except Exception` answers with 500                           *)
UpdateAttendanceWrite(w) ==
    LET f == inflight[w]
        matched == DOMAIN attendance \cap {f.id}
    IN
    /\ f # Idle
    /\ f.op = "update_attendance"
    /\ attendance' =
          [a \in DOMAIN attendance |->
              IF a \in matched THEN [attendance[a] EXCEPT !.status = f.status]
              ELSE attendance[a]]
    /\ inflight' = [inflight EXCEPT ![w] = Idle]
    /\ resp' = [NoResp EXCEPT !.op = "update_attendance",
                              !.status = IF matched = {} THEN 500 ELSE 200,
                              !.user_id = f.uid, !.found = f.found,
                              !.existing = matched]
    /\ UNCHANGED <<authVars, idpVars, profiles, classes, class_seq,
                   class_students, assignments, submissions, att_seq>>

----------------------------------------------------------------------------
(* add_student_to_class on a worker thread: the handler is a plain def, so *)
(* FastAPI runs it in its thread pool, and another request can run between *)
(* its "existing" query and its insert.                                    *)

(* the request up to the existing-enrollment check (router.py 251-269) *)
AddStudentCheck(w, class_id, student_id, uid) ==
    LET r == add_student_to_class(class_id, student_id, uid) IN
    /\ inflight[w] = Idle
    /\ inflight' =
          IF r.status # 200 THEN inflight
          ELSE [inflight EXCEPT ![w] =
                   [op |-> "add_student_to_class",
                    row |-> Enrollment(class_id, student_id), uid |-> uid]]
    /\ resp' =
          IF r.status = 200 THEN NoResp
          ELSE [NoResp EXCEPT !.op = "add_student_to_class",
                              !.status = r.status, !.user_id = uid,
                              !.class_id = class_id,
                              !.found = ClassRows(classes, class_id)]
    /\ UNCHANGED <<authVars, storeVars>>

(* the insert and the response (router.py 271-278) *)
AddStudentInsert(w) ==
    /\ inflight[w].op = "add_student_to_class"
    /\ class_students' = class_students (+) SetToBag({inflight[w].row})
    /\ inflight' = [inflight EXCEPT ![w] = Idle]
    /\ resp' = [NoResp EXCEPT !.op = "add_student_to_class", !.status = 200,
                              !.user_id = inflight[w].uid,
                              !.class_id = inflight[w].row.class_id,
                              !.found =
                                  ClassRows(classes, inflight[w].row.class_id),
                              !.inserted = {inflight[w].row}]
    /\ UNCHANGED <<authVars, idpVars, attVars, profiles, classes, class_seq,
                   assignments, submissions>>

----------------------------------------------------------------------------
(* app/modules/admin/router.py and update_my_profile of                    *)
(* app/modules/profiles/router.py                                          *)

(* select(...).eq("school_id", school_id) on profiles *)
ProfilesInSchool(tbl, school_id) ==
    {u \in DOMAIN tbl : tbl[u].school_id = school_id}

(* select("id", count="exact").eq("role", "admin").eq("school_id", ...) *)
AdminsInSchool(tbl, school_id) ==
    {u \in ProfilesInSchool(tbl, school_id) : tbl[u].role = "admin"}

(* get_all_users: its only dependency is get_current_school_id *)
get_all_users(user_id) ==
    LET s == get_current_school_id(user_id, profiles) IN
    IF RequiredQuery(user_id) # 0
    THEN [status |-> 422, rows |-> {}]
    ELSE IF s.status # 0
    THEN [status |-> s.status, rows |-> {}]
    ELSE [status |-> 200, rows |-> ProfilesInSchool(profiles, s.school_id)]

(* The one account create_user is asked for in the model: the identity     *)
(* provider names it U1 and refuses its email while U1 is registered.      *)
NewUserId == "U1"

(* create_user: status and the profile row it upserts *)
create_user(role, user_id) ==
    LET s == get_current_school_id(user_id, profiles) IN
    IF RequiredQuery(user_id) # 0
    THEN [status |-> 422, inserted |-> {}]
    ELSE IF s.status # 0
    THEN [status |-> s.status, inserted |-> {}]
    ELSE IF role \notin {"teacher", "student"}
    THEN [status |-> 400, inserted |-> {}]
    ELSE IF NewUserId \in auth_users
    THEN [status |-> 400, inserted |-> {}]
    ELSE [status |-> 200,
          inserted |-> {[role |-> role, school_id |-> s.school_id]}]

(* delete_user up to the last-admin check: status 0 when the handler goes  *)
(* on to delete, and the school it resolved for the target                 *)
delete_user_check(user_id, tbl) ==
    LET s == get_school_id_for_user(user_id, tbl) IN
    IF s.status # 0
    THEN [status |-> s.status, school_id |-> None]
    ELSE IF user_id \notin ProfilesInSchool(tbl, s.school_id)
    THEN [status |-> 404, school_id |-> s.school_id]
    ELSE IF /\ tbl[user_id].role = "admin"
            /\ Cardinality(AdminsInSchool(tbl, s.school_id)) <= 1
    THEN [status |-> 400, school_id |-> s.school_id]
    ELSE [status |-> 0, school_id |-> s.school_id]

(* delete().eq("id", user_id).eq("school_id", school_id) on profiles *)
DeleteProfile(tbl, user_id, school_id) ==
    [u \in {x \in DOMAIN tbl :
               ~ (x = user_id /\ tbl[x].school_id = school_id)} |-> tbl[u]]

(* GET /admin/users *)
GetAllUsers(user_id) ==
    LET r == get_all_users(user_id) IN
    /\ resp' = [NoResp EXCEPT !.op = "get_all_users", !.status = r.status,
                              !.user_id = user_id, !.rows = r.rows]
    /\ UNCHANGED <<authVars, storeVars, inflight>>

(* POST /admin/users *)
CreateUser(role, user_id) ==
    LET r == create_user(role, user_id) IN
    /\ profiles' =
          IF r.inserted = {} THEN profiles
          ELSE [u \in DOMAIN profiles \cup {NewUserId} |->
                   IF u = NewUserId
                   THEN [role |-> role,
                         school_id |->
                             get_current_school_id(user_id,
                                                   profiles).school_id]
                   ELSE profiles[u]]
    /\ auth_users' =
          IF r.inserted = {} THEN auth_users ELSE auth_users \cup {NewUserId}
    /\ resp' = [NoResp EXCEPT !.op = "create_user", !.status = r.status,
                              !.user_id = user_id, !.target = NewUserId,
                              !.inserted = r.inserted]
    /\ UNCHANGED <<authVars, schools, attVars, inflight, classes, class_seq,
                   class_students, assignments, submissions>>

(* DELETE /admin/users/{user_id}: the handler takes no caller.  It is a    *)
(* sync def, so another request can run between its last-admin count and   *)
(* its delete.  This step is the request up to that check (253-278).       *)
DeleteUserCheck(w, user_id) ==
    LET r == delete_user_check(user_id, profiles) IN
    /\ inflight[w] = Idle
    /\ inflight' =
          IF r.status # 0 THEN inflight
          ELSE [inflight EXCEPT ![w] =
                   [op |-> "delete_user", user_id |-> user_id,
                    school_id |-> r.school_id]]
    /\ resp' =
          IF r.status = 0 THEN NoResp
          ELSE [NoResp EXCEPT !.op = "delete_user", !.status = r.status,
                              !.target = user_id,
                              !.found = ProfileRows(profiles, user_id)]
    /\ UNCHANGED <<authVars, storeVars>>

(* the delete of the profile, of the auth user, and the response           *)
(* (280-298): auth.admin.delete_user raises for a user the provider no     *)
(* longer has, which the handler answers with 500 after the profile delete *)
DeleteUserDelete(w) ==
    LET user_id == inflight[w].user_id IN
    /\ inflight[w].op = "delete_user"
    /\ profiles' = DeleteProfile(profiles, user_id, inflight[w].school_id)
    /\ auth_users' = auth_users \ {user_id}
    /\ inflight' = [inflight EXCEPT ![w] = Idle]
    /\ resp' = [NoResp EXCEPT
                   !.op = "delete_user",
                   !.status = IF user_id \in auth_users THEN 200 ELSE 500,
                   !.target = user_id,
                   !.found = ProfileRows(profiles, user_id)]
    /\ UNCHANGED <<authVars, schools, attVars, classes, class_seq,
                   class_students, assignments, submissions>>

(* bootstrap_admin up to the role validation (179-189): 403 once any       *)
(* profile exists, 400 for a role other than admin, 0 when it goes on      *)
bootstrap_admin_check(role, tbl) ==
    IF Cardinality(DOMAIN tbl) > 0 THEN 403
    ELSE IF role # "admin" THEN 400
    ELSE 0

(* profile_data of bootstrap_admin: no school_id column *)
bootstrap_profile(role) ==
    [role |-> role, school_id |-> None]

(* POST /admin/bootstrap-admin: a sync def with no lock; another request   *)
(* can run between its count of the profiles and its upsert.  This step is *)
(* the request up to the role validation.                                  *)
BootstrapCheck(w, new_id, role) ==
    LET st == bootstrap_admin_check(role, profiles) IN
    /\ inflight[w] = Idle
    /\ inflight' =
          IF st # 0 THEN inflight
          ELSE [inflight EXCEPT ![w] =
                   [op |-> "bootstrap_admin", user_id |-> new_id,
                    role |-> role]]
    /\ resp' =
          IF st = 0 THEN NoResp
          ELSE [NoResp EXCEPT !.op = "bootstrap_admin", !.status = st,
                              !.target = new_id]
    /\ UNCHANGED <<authVars, storeVars>>

(* the auth user, the profile upsert and the response (198-246): the       *)
(* identity provider refuses (400) an email that is already registered     *)
BootstrapCreate(w) ==
    LET new_id == inflight[w].user_id
        taken == new_id \in auth_users
    IN
    /\ inflight[w].op = "bootstrap_admin"
    /\ profiles' =
          IF taken THEN profiles
          ELSE [u \in DOMAIN profiles \cup {new_id} |->
                   IF u = new_id THEN bootstrap_profile(inflight[w].role)
                   ELSE profiles[u]]
    /\ auth_users' = IF taken THEN auth_users ELSE auth_users \cup {new_id}
    /\ inflight' = [inflight EXCEPT ![w] = Idle]
    /\ resp' = [NoResp EXCEPT
                   !.op = "bootstrap_admin",
                   !.status = IF taken THEN 400 ELSE 200,
                   !.target = new_id,
                   !.inserted = IF taken THEN {}
                                ELSE {bootstrap_profile(inflight[w].role)}]
    /\ UNCHANGED <<authVars, schools, attVars, classes, class_seq, class_students,
                   assignments, submissions>>

(* PUT /profiles/me with a role in the body.  get_current_user(user_id)    *)
(* returns the dummy user unless USE_REAL_JWT, where credentials.scheme on *)
(* the str raises and the handler answers 400 before the update.  The      *)
(* update is executed before ProfileResponse is built, and the response    *)
(* fails (400) when the row lacks a name the schema requires.              *)
(* get_my_profile: the HTTPException the handler raises inside its try    *)
(* (0 for none), given whether get_current_user(user_id) returned          *)
get_my_profile_raised(resolved, rows) ==
    IF resolved /\ rows = {} THEN 404 ELSE 0

(* `except Exception` of the profiles router: HTTPException is an          *)
(* Exception, so whatever the try block raised is answered with 400        *)
profiles_except(resolved, raised, valid) ==
    IF ~ resolved \/ raised # 0 \/ ~ valid THEN 400 ELSE 200

(* GET /profiles/me.  ProfileResponse fails to build (valid = FALSE) when  *)
(* the row lacks a name the schema requires.                               *)
GetMyProfile(user_id) ==
    LET cu == get_current_user(StrCred(user_id), USE_REAL_JWT, profiles)
        resolved == cu.status = 0
        rows == ProfileRows(profiles, user_id)
        raised == get_my_profile_raised(resolved, rows)
    IN
    /\ \E valid \in BOOLEAN :
          resp' = [NoResp EXCEPT
                      !.op = "get_my_profile",
                      !.status = IF RequiredQuery(user_id) # 0 THEN 422
                                 ELSE profiles_except(resolved, raised, valid),
                      !.raised = IF RequiredQuery(user_id) # 0 THEN 0
                                 ELSE raised,
                      !.user_id = user_id,
                      !.found = rows]
    /\ UNCHANGED <<authVars, storeVars, inflight>>

(* update(update_data).eq("id", user_id) with role in update_data.  The    *)
(* mistaken variant drops the eq filter.                                   *)
update_my_profile_unfiltered(tbl, user_id, role) ==
    [u \in DOMAIN tbl |-> [tbl[u] EXCEPT !.role = role]]

update_my_profile(tbl, user_id, role) ==
    [u \in DOMAIN tbl |->
        IF u = user_id THEN [tbl[u] EXCEPT !.role = role] ELSE tbl[u]]

UpdateMyProfile(role, user_id) ==
    LET cu == get_current_user(StrCred(user_id), USE_REAL_JWT, profiles)
        reached == RequiredQuery(user_id) = 0 /\ cu.status = 0
        updated == reached /\ user_id \in DOMAIN profiles
    IN
    /\ profiles' =
          IF reached THEN update_my_profile(profiles, user_id, role)
          ELSE profiles
    /\ \E valid \in BOOLEAN :
          resp' = [NoResp EXCEPT
                      !.op = "update_my_profile",
                      !.status = IF RequiredQuery(user_id) # 0 THEN 422
                                 ELSE IF updated /\ valid THEN 200
                                 ELSE 400,
                      !.raised = IF reached /\ ~ updated THEN 404 ELSE 0,
                      !.user_id = user_id, !.target = user_id,
                      !.found = ProfileRows(profiles, user_id)]
    /\ UNCHANGED <<authVars, idpVars, attVars, inflight, classes, class_seq,
                   class_students, assignments, submissions>>

----------------------------------------------------------------------------
(* app/core/session_cache.py, run by concurrent threads.  Each function    *)
(* reads the clock or draws its token before `with _lock`, and touches     *)
(* _sessions only inside it.  inflight[w].pc is the thread's position:     *)
(* "lock" waiting for _lock, any position of Holding inside the with block *)

Holding == {"held", "read", "listed"}

(* a lock that every thread may take at any time *)
lock_ignored(infl) ==
    TRUE

(* _lock can be acquired: no thread is inside a with block *)
lock_is_free(infl) ==
    \A v \in DOMAIN infl :
        ~ ("pc" \in DOMAIN infl[v] /\ infl[v].pc \in Holding)

(* token = str(uuid4()); expires_at = time.time() + ttl *)
ThreadCreateBegin(w, u, ttl) ==
    /\ inflight[w] = Idle
    /\ FreshToken \in Tokens
    /\ inflight' = [inflight EXCEPT ![w] =
                       [op |-> "create_session", pc |-> "lock",
                        token |-> FreshToken, user_id |-> u,
                        expires_at |-> now + ttl]]
    /\ issued' = create_session(issued, FreshToken, u, ttl, now)
    /\ resp' = NoResp
    /\ UNCHANGED <<USE_REAL_JWT, sessions, now, ticks, storeVars>>

(* now = time.time() of get_user_id_for_token and of clear_expired, and    *)
(* the call of invalidate_session                                          *)
ThreadBegin(w, op, token) ==
    /\ inflight[w] = Idle
    /\ inflight' = [inflight EXCEPT ![w] =
                       [op |-> op, pc |-> "lock", token |-> token,
                        t |-> now, data |-> {}, expired |-> {}]]
    /\ resp' = NoResp
    /\ UNCHANGED <<authVars, storeVars>>

(* with _lock: *)
ThreadAcquire(w) ==
    /\ inflight[w] # Idle
    /\ inflight[w].pc = "lock"
    /\ lock_is_free(inflight)
    /\ inflight' = [inflight EXCEPT ![w].pc = "held"]
    /\ resp' = NoResp
    /\ UNCHANGED <<authVars, storeVars>>

(* _sessions[token] = (user_id, expires_at); return token *)
ThreadCreateStore(w) ==
    /\ inflight[w] # Idle
    /\ inflight[w].op = "create_session" /\ inflight[w].pc = "held"
    /\ sessions' =
          [x \in DOMAIN sessions \cup {inflight[w].token} |->
              IF x = inflight[w].token
              THEN [user_id |-> inflight[w].user_id,
                    expires_at |-> inflight[w].expires_at]
              ELSE sessions[x]]
    /\ inflight' = [inflight EXCEPT ![w] = Idle]
    /\ resp' = [NoResp EXCEPT !.op = "create_session",
                              !.user_id = inflight[w].user_id,
                              !.token = inflight[w].token]
    /\ UNCHANGED <<USE_REAL_JWT, issued, now, ticks, storeVars>>

(* data = _sessions.get(token) *)
ThreadGetRead(w) ==
    /\ inflight[w] # Idle
    /\ inflight[w].op = "get_user_id_for_token" /\ inflight[w].pc = "held"
    /\ inflight' = [inflight EXCEPT
                       ![w].pc = "read",
                       ![w].data = SessionRows(sessions, inflight[w].token)]
    /\ resp' = NoResp
    /\ UNCHANGED <<authVars, storeVars>>

(* the rest of get_user_id_for_token: None without data; del and None for *)
(* an expired entry, where del raises KeyError (500) if the key is gone;   *)
(* the user_id otherwise                                                   *)
ThreadGetReturn(w) ==
    LET f == inflight[w]
        expired == \E e \in f.data : is_expired(e, f.t)
    IN
    /\ f # Idle
    /\ f.op = "get_user_id_for_token" /\ f.pc = "read"
    /\ sessions' = IF expired THEN invalidate_session(sessions, f.token)
                   ELSE sessions
    /\ inflight' = [inflight EXCEPT ![w] = Idle]
    /\ resp' = [NoResp EXCEPT
                   !.op = "get_user_id_for_token",
                   !.status = IF expired /\ f.token \notin DOMAIN sessions
                              THEN 500 ELSE 0,
                   !.token = f.token,
                   !.entry = f.data,
                   !.cached_uid =
                       IF f.data = {} \/ expired THEN None
                       ELSE (CHOOSE e \in f.data : TRUE).user_id]
    /\ UNCHANGED <<USE_REAL_JWT, issued, now, ticks, storeVars>>

(* _sessions.pop(token, None) *)
ThreadInvalidatePop(w) ==
    /\ inflight[w] # Idle
    /\ inflight[w].op = "invalidate_session" /\ inflight[w].pc = "held"
    /\ sessions' = invalidate_session(sessions, inflight[w].token)
    /\ inflight' = [inflight EXCEPT ![w] = Idle]
    /\ resp' = [NoResp EXCEPT !.op = "invalidate_session",
                              !.token = inflight[w].token,
                              !.entry =
                                  SessionRows(sessions, inflight[w].token)]
    /\ UNCHANGED <<USE_REAL_JWT, issued, now, ticks, storeVars>>

(* expired = [t for t, (_, e) in _sessions.items() if e < now] *)
ThreadClearList(w) ==
    /\ inflight[w] # Idle
    /\ inflight[w].op = "clear_expired" /\ inflight[w].pc = "held"
    /\ inflight' = [inflight EXCEPT
                       ![w].pc = "listed",
                       ![w].expired =
                           {x \in DOMAIN sessions :
                               is_expired(sessions[x], inflight[w].t)}]
    /\ resp' = NoResp
    /\ UNCHANGED <<authVars, storeVars>>

(* for t in expired: del _sessions[t], where del raises KeyError (500) if  *)
(* a key is gone                                                           *)
ThreadClearDel(w) ==
    LET f == inflight[w] IN
    /\ f # Idle
    /\ f.op = "clear_expired" /\ f.pc = "listed"
    /\ sessions' = [x \in DOMAIN sessions \ f.expired |-> sessions[x]]
    /\ inflight' = [inflight EXCEPT ![w] = Idle]
    /\ resp' = [NoResp EXCEPT
                   !.op = "clear_expired",
                   !.status = IF f.expired \subseteq DOMAIN sessions
                              THEN 0 ELSE 500]
    /\ UNCHANGED <<USE_REAL_JWT, issued, now, ticks, storeVars>>

----------------------------------------------------------------------------
(* The guards called on their own, with the profile store up or down *)

StoreName(tbl) == IF Raises(tbl) THEN "down" ELSE "up"

GuardResp(op, user_id, tbl, r) ==
    [NoResp EXCEPT !.op = op, !.status = r.status, !.user_id = user_id,
                   !.store = StoreName(tbl)]

(* Depends(get_current_user) *)
ResolveCurrentUser(bearer, tbl) ==
    LET r == current_user_dependency(bearer, USE_REAL_JWT, tbl) IN
    /\ resp' = [GuardResp("get_current_user", bearer, tbl, r)
                   EXCEPT !.sub = bearer,
                          !.user = IF r.status = 0 THEN {r.user} ELSE {}]
    /\ UNCHANGED <<authVars, storeVars, inflight>>

RequireAdminByUuid(user_id, tbl) ==
    /\ resp' = GuardResp("require_admin_by_uuid", user_id, tbl,
                         require_admin_by_uuid(user_id, tbl))
    /\ UNCHANGED <<authVars, storeVars, inflight>>

RequireTeacherByUuid(user_id, tbl) ==
    /\ resp' = GuardResp("require_teacher_by_uuid", user_id, tbl,
                         require_teacher_by_uuid(user_id, tbl))
    /\ UNCHANGED <<authVars, storeVars, inflight>>

RequireAdminOrTeacherByUuid(user_id, tbl) ==
    /\ resp' = GuardResp("require_admin_or_teacher_by_uuid", user_id, tbl,
                         require_admin_or_teacher_by_uuid(user_id, tbl))
    /\ UNCHANGED <<authVars, storeVars, inflight>>

GetCurrentSchoolId(user_id, tbl) ==
    LET r == get_current_school_id(user_id, tbl) IN
    /\ resp' = [GuardResp("get_current_school_id", user_id, tbl, r)
                   EXCEPT !.school_id = r.school_id]
    /\ UNCHANGED <<authVars, storeVars, inflight>>

Init ==
    /\ USE_REAL_JWT \in BOOLEAN
    /\ sessions = <<>>
    /\ issued = <<>>
    /\ now = 0
    /\ ticks = 0
    /\ profiles = InitProfiles
    /\ classes = InitClasses
    /\ class_seq = 0
    /\ class_students = EmptyBag
    /\ assignments = InitAssignments
    /\ submissions = EmptyBag
    /\ attendance = <<>>
    /\ att_seq = 0
    /\ auth_users = UserIds
    /\ schools = Schools
    /\ inflight = [w \in Workers |-> Idle]
    /\ resp = NoResp

LoginIds == {"T1", "G1"}
SessionIds == {"T1"}
MeUserIds == {None, "", "T1"}
AuthHeaders == {NoHeader} \cup {Bearer(t) : t \in Tokens \cup {NoToken}}

Next ==
    \/ \E d \in TickSteps : Tick(d)
    \/ \E u \in SessionIds, ttl \in TTLs : CreateSession(u, ttl)
    \/ \E t \in Tokens : GetUserIdForToken(t)
    \/ \E t \in Tokens : InvalidateSession(t)
    \/ ClearExpired
    \/ \E u \in LoginIds, ok \in BOOLEAN : Login(u, ok)
    \/ \E u \in MeUserIds, h \in AuthHeaders : Me(u, h)

Spec == Init /\ [][Next]_vars

(* The requests the classes router is checked under *)
ClassCallers == {None, "A1", "A2", "T1", "T2", "P1", "G1"}
ClassTeachers == {None, "T2"}
ClassStudents == {"P1"}

NextClasses ==
    \/ \E t \in ClassTeachers, u \in ClassCallers : CreateClass(t, u)
    \/ \E u \in ClassCallers : GetClasses(u)
    \/ \E p \in ClassStudents : GetStudentClasses(p)
    \/ \E c \in ClassIds, u \in ClassCallers : GetClass(c, u)
    \/ \E c \in ClassIds, t \in ClassTeachers, u \in ClassCallers :
          UpdateClass(c, t, u)
    \/ \E c \in ClassIds, u \in ClassCallers : DeleteClass(c, u)
    \/ \E c \in ClassIds, p \in ClassStudents, u \in ClassCallers :
          AddStudentToClass(c, p, u)
    \/ \E c \in ClassIds, p \in ClassStudents, u \in ClassCallers :
          RemoveStudentFromClass(c, p, u)

(* The classes router never reads USE_REAL_JWT: its default stands. *)
InitDefault == Init /\ ~ USE_REAL_JWT

SpecClasses == InitDefault /\ [][NextClasses]_vars

(* The requests the assignments, submissions and grades routers are        *)
(* checked under: the user_id query parameter and the sub of the bearer    *)
(* JWT ("absent": no Authorization header, "garbage": not a JWT).          *)
Request(user_id, bearer) == [user_id |-> user_id, bearer |-> bearer]

WorkCallers == {"A1", "A2", "T1", "T2", "P1"}

WorkRequests ==
    {Request(u, u) : u \in WorkCallers}
    \cup {Request(None, "absent"), Request(None, "garbage"),
          Request("G1", "G1"), Request("A1", "garbage"),
          Request("A1", "absent"), Request("T1", "P1"),
          Request("A2", "P1")}

WorkUserIds == {q.user_id : q \in WorkRequests}
WorkClassIds == DOMAIN InitClasses
AssignmentIds == 1 .. MaxAssignments

NextWork ==
    \/ \E c \in WorkClassIds, u \in WorkUserIds : CreateAssignment(c, u)
    \/ \E c \in WorkClassIds, q \in WorkRequests :
          GetClassAssignments(c, q.user_id, q.bearer)
    \/ \E a \in AssignmentIds, u \in WorkUserIds : UpdateAssignment(a, u)
    \/ \E a \in AssignmentIds, c \in WorkClassIds, q \in WorkRequests :
          SubmitAssignment(a, c, q.user_id, q.bearer)
    \/ \E q \in WorkRequests : GetMySubmissions(q.user_id, q.bearer)
    \/ \E q \in WorkRequests : GetMyGrades(q.user_id, q.bearer)
    \/ \E p \in ClassStudents : GetStudentClasses(p)
    \/ \E c \in WorkClassIds, p \in ClassStudents, u \in WorkCallers :
          AddStudentToClass(c, p, u)
    \/ \E c \in WorkClassIds, p \in ClassStudents, u \in WorkCallers :
          RemoveStudentFromClass(c, p, u)

SpecWork == Init /\ [][NextWork]_vars

(* The requests the attendance router is checked under *)
AttendanceCallers == {None, "A1", "T1", "T2", "G1"}
AttendanceItems ==
    {AttendanceCreate(1, "P1", "D1", "present"),
     AttendanceCreate(1, "P1", "D2", "absent"),
     AttendanceCreate(2, "P1", "D1", "late")}
BulkBodies ==
    {<<>>,
     <<AttendanceCreate(1, "P1", "D1", "present"),
       AttendanceCreate(1, "P1", "D1", "absent")>>,
     <<AttendanceCreate(1, "P1", "D2", "absent"),
       AttendanceCreate(2, "P1", "D1", "present")>>}
AttendanceIds == 1 .. MaxAttendance

NextAttendance ==
    \/ \E i \in AttendanceItems, u \in AttendanceCallers : MarkAttendance(i, u)
    \/ \E b \in BulkBodies, u \in AttendanceCallers : MarkBulkAttendance(b, u)
    \/ \E a \in AttendanceIds, u \in AttendanceCallers :
          UpdateAttendance(a, "absent", u)
    \/ \E a \in AttendanceIds, u \in AttendanceCallers : DeleteAttendance(a, u)
    \/ UpdateClass(2, "T2", "A2")

SpecAttendance == InitDefault /\ [][NextAttendance]_vars

(* Attendance updates that may overlap with a delete *)
NextAttendanceRace ==
    \/ \E i \in AttendanceItems, u \in {"A1", "T1"} : MarkAttendance(i, u)
    \/ \E w \in Workers, a \in AttendanceIds, st \in {"absent", "late"},
          u \in AttendanceCallers : UpdateAttendanceCheck(w, a, st, u)
    \/ \E w \in Workers : UpdateAttendanceWrite(w)
    \/ \E a \in AttendanceIds, u \in {"A1", "T2"} : DeleteAttendance(a, u)

SpecAttendanceRace == InitDefault /\ [][NextAttendanceRace]_vars

(* Enrollment requests that may overlap *)
EnrollCallers == {None, "A1", "T1", "T2"}

NextEnroll ==
    \/ \E w \in Workers, c \in DOMAIN InitClasses, p \in ClassStudents,
          u \in EnrollCallers : AddStudentCheck(w, c, p, u)
    \/ \E w \in Workers : AddStudentInsert(w)
    \/ \E c \in DOMAIN InitClasses, p \in ClassStudents, u \in EnrollCallers :
          RemoveStudentFromClass(c, p, u)

SpecEnroll == InitDefault /\ [][NextEnroll]_vars

(* The callers and the store states the guards are checked under *)
GuardCallers == {"A1", "A2", "T1", "T3", "P1", "N1", "G1"}
GuardBearers == GuardCallers \cup {"absent", "garbage"}

NextGuards ==
    \E tbl \in {profiles, Unreachable} :
        \/ \E b \in GuardBearers : ResolveCurrentUser(b, tbl)
        \/ \E u \in GuardCallers : RequireAdminByUuid(u, tbl)
        \/ \E u \in GuardCallers : RequireTeacherByUuid(u, tbl)
        \/ \E u \in GuardCallers : RequireAdminOrTeacherByUuid(u, tbl)
        \/ \E u \in GuardCallers : GetCurrentSchoolId(u, tbl)

SpecGuards == Init /\ [][NextGuards]_vars

(* The callers and targets the admin router is checked under *)
AdminCallers == {None, "A1", "T1", "P1", "G1"}
DeleteTargets == {"A1", "A2", "T1", "P1", "G1"}

NextAdmin ==
    \/ \E u \in AdminCallers : GetAllUsers(u)
    \/ \E u \in {"A1", "T1"}, r \in {"teacher", "admin"} : CreateUser(r, u)
    \/ UpdateMyProfile("admin", "T1")
    \/ \E w \in Workers, t \in DeleteTargets : DeleteUserCheck(w, t)
    \/ \E w \in Workers : DeleteUserDelete(w)

SpecAdmin == InitDefault /\ [][NextAdmin]_vars

(* A deployment before its first user: every table is empty *)
InitEmpty ==
    /\ USE_REAL_JWT = FALSE
    /\ sessions = <<>>
    /\ issued = <<>>
    /\ now = 0
    /\ ticks = 0
    /\ profiles = <<>>
    /\ classes = <<>>
    /\ class_seq = 0
    /\ class_students = EmptyBag
    /\ assignments = <<>>
    /\ submissions = EmptyBag
    /\ attendance = <<>>
    /\ att_seq = 0
    /\ auth_users = {}
    /\ schools = {}
    /\ inflight = [w \in Workers |-> Idle]
    /\ resp = NoResp

(* The accounts bootstrap_admin is asked for *)
BootstrapIds == {"B1", "B2", "B3"}

NextBootstrap ==
    \/ \E w \in Workers, b \in BootstrapIds, r \in {"admin", "teacher"} :
          BootstrapCheck(w, b, r)
    \/ \E w \in Workers : BootstrapCreate(w)

SpecBootstrap == InitEmpty /\ [][NextBootstrap]_vars

(* The callers and roles update_my_profile is checked under *)
ProfileCallers == {None, "A1", "T1", "T3", "P1", "G1"}
ProfileRoles == {"admin", "teacher", "student"}

NextProfiles ==
    \/ \E u \in ProfileCallers, r \in ProfileRoles : UpdateMyProfile(r, u)
    \/ \E u \in ProfileCallers : GetMyProfile(u)
    \/ \E u \in ProfileCallers : GetAllUsers(u)

SpecProfiles == Init /\ [][NextProfiles]_vars

(* The routes of the auth router with the cache's maintenance operations;  *)
(* U2 is an email nobody has registered yet, S3 a school name not in use   *)
SignupIds == {"T1", "G1", "U2"}
SignupSchools == {None, "S1", "S3"}
SignupRoles == {None, "teacher"}
AuthLoginIds == {"T1", "U2"}
AuthHeadersOfTokens == {Bearer(t) : t \in Tokens}

NextAuth ==
    \/ Tick(DEFAULT_TTL + 1)
    \/ \E u \in SignupIds, n \in SignupSchools, r \in SignupRoles :
          Signup(u, n, r)
    \/ \E u \in AuthLoginIds, ok \in BOOLEAN : Login(u, ok)
    \/ \E h \in AuthHeadersOfTokens : Me(None, h)
    \/ \E t \in Tokens : InvalidateSession(t)
    \/ ClearExpired

SpecAuth == InitDefault /\ [][NextAuth]_vars

(* The session cache under two threads *)
ThreadOps == {"get_user_id_for_token", "invalidate_session"}

NextThreads ==
    \/ \E d \in TickSteps : Tick(d)
    \/ \E w \in Workers :
          \/ \E ttl \in TTLs : ThreadCreateBegin(w, "T1", ttl)
          \/ \E op \in ThreadOps, t \in Tokens : ThreadBegin(w, op, t)
          \/ ThreadBegin(w, "clear_expired", NoToken)
          \/ ThreadAcquire(w)
          \/ ThreadCreateStore(w)
          \/ ThreadGetRead(w)
          \/ ThreadGetReturn(w)
          \/ ThreadInvalidatePop(w)
          \/ ThreadClearList(w)
          \/ ThreadClearDel(w)

SpecThreads == InitDefault /\ [][NextThreads]_vars

----------------------------------------------------------------------------
(* Claims about the session cache and /auth/me, checked under Spec *)

\* C1 (as claimed): a token found in the map resolves to its user id at
\* every time before expires_at = c + T and to None at every time from
\* c + T on, the instant c + T included; a token not in the map resolves
\* to None.
TokenLifetime ==
    resp.op = "get_user_id_for_token" =>
        /\ resp.entry = {} => resp.cached_uid = None
        /\ \A e \in resp.entry :
              resp.cached_uid = IF now < e.expires_at THEN e.user_id ELSE None

\* C4 (as claimed): a me call whose bearer token the session cache
\* resolves to a user U with a stored role answers 200 with U's id, role
\* and school_id as stored in U's profile.
LoginThenMe ==
    (/\ resp.op = "me"
     /\ resp.cached_uid \in DOMAIN profiles
     /\ profiles[resp.cached_uid].role # None)
    => /\ resp.status = 200
       /\ \E b \in resp.body :
             /\ b.id = resp.cached_uid
             /\ b.role = profiles[resp.cached_uid].role
             /\ b.school_id = profiles[resp.cached_uid].school_id

(* the token of the request was created and the time is past its expiry *)
PastTTL ==
    /\ resp.token \in DOMAIN issued
    /\ issued[resp.token].expires_at < now

\* C5 (as claimed): every me call presenting a bearer token whose TTL has
\* passed is rejected with 401.
ExpiredSessionAnyCall ==
    (resp.op = "me" /\ PastTTL) => resp.status = 401

\* C5 (amended): a me call presenting a bearer token whose TTL has passed,
\* and carrying no user_id query parameter, is rejected with 401.
ExpiredSessionTokenOnly ==
    (resp.op = "me" /\ PastTTL /\ resp.user_id = None) => resp.status = 401

ExpiredSessionWitness ==
    /\ resp.op = "me" /\ PastTTL /\ resp.user_id = None
    /\ resp.status = 401
    /\ issued[resp.token].user_id \in DOMAIN profiles

----------------------------------------------------------------------------
(* Properties of the classes router, checked under SpecClasses *)

ClassResourceOps ==
    {"get_class", "update_class", "delete_class", "add_student_to_class",
     "remove_student_from_class"}

CallerSchool(uid) ==
    IF uid \in DOMAIN profiles THEN profiles[uid].school_id ELSE None

\* C2 (as claimed): a caller whose profile is in school B never succeeds in
\* reading, updating, deleting or enrolling under a class whose school_id is
\* A # B; the answer is Forbidden (403) or NotFound (404).
TenantIsolation ==
    \A c \in resp.found :
        ( /\ resp.op \in ClassResourceOps
          /\ CallerSchool(resp.user_id) # None
          /\ c.school_id # None
          /\ c.school_id # CallerSchool(resp.user_id) )
        => resp.status \in {403, 404}

ClassListOps == {"get_classes", "get_student_classes"}

\* C6 (as claimed): a call to a list endpoint that carries neither a token
\* nor a user id is answered NotAuthenticated (401) and returns no list.
UnauthenticatedListing ==
    (resp.op \in ClassListOps /\ resp.user_id = None)
    => resp.status = 401

ByUuidGuardedOps ==
    ClassResourceOps \cup {"create_class", "get_classes"}

\* C7 (as claimed): when the caller id has no profile row, or its row has no
\* role, the guard answers NotAuthenticated (401).
ResolutionFailureIs401 ==
    ( /\ resp.op \in ByUuidGuardedOps
      /\ resp.user_id # None
      /\ \/ resp.user_id \notin DOMAIN profiles
         \/ profiles[resp.user_id].role = None )
    => resp.status = 401

\* C9 (as claimed): every row a create operation stores carries the school_id
\* of the calling user's profile, never another value and never empty.
CreateStampsTenant ==
    resp.op = "create_class"
    => \A r \in resp.inserted : r.school_id = CallerSchool(resp.user_id)

----------------------------------------------------------------------------
(* Properties of the assignments, submissions and grades routers, checked  *)
(* under SpecWork                                                          *)

CallerRole(uid) ==
    IF uid \in DOMAIN profiles THEN profiles[uid].role ELSE None

ClassScopedWrites ==
    {"add_student_to_class", "remove_student_from_class",
     "create_assignment", "update_assignment"}

\* C3 (as claimed): on a class whose teacher_id is X, a teacher-role caller
\* Y # X of the same school is denied every write on the class and on what
\* is scoped under it, and the teacher X is permitted each of those writes
\* (the request is not answered 401, 403 or 500).
OwnershipRestriction ==
    \A c \in resp.found :
        ( /\ resp.op \in ClassScopedWrites
          /\ CallerRole(resp.user_id) = "teacher"
          /\ c.school_id = CallerSchool(resp.user_id) )
        => /\ c.teacher_id # resp.user_id => resp.status = 403
           /\ c.teacher_id = resp.user_id => resp.status \notin {401, 403, 500}

BearerOps ==
    {"get_class_assignments", "submit_assignment", "get_my_submissions",
     "get_my_grades"}

\* C8 (as claimed): a request whose bearer credential names no stored
\* profile is rejected, and every user the resolver returns has the id and
\* the role of a stored profile.
NoGuestDefault ==
    resp.op \in BearerOps
    => /\ resp.sub \notin DOMAIN profiles => resp.status \in {401, 403, 422}
       /\ \A u \in resp.user :
             u.id \in DOMAIN profiles /\ u.role = profiles[u.id].role

Admins == {u \in DOMAIN profiles : profiles[u].role = "admin"}
TeachersAndStudents ==
    {u \in DOMAIN profiles : profiles[u].role \in {"teacher", "student"}}

(* a passes operation r2 whenever v passes r1 *)
Passes(r1, r2) ==
    r1.status = 200 => r2.status = 200

(* The operations that are not reserved to students, each asked by v and   *)
(* by the admin a on the classes and assignments of a's school.            *)
AdminPassesShared(a, v) ==
    /\ Passes(get_classes(v), get_classes(a))
    /\ \A t \in ClassTeachers :
          Passes(create_class(t, v), create_class(t, a))
    /\ \A c \in {x \in DOMAIN classes :
                    classes[x].school_id = profiles[a].school_id} :
          /\ Passes(get_class(c, v), get_class(c, a))
          /\ Passes(delete_class(c, v), delete_class(c, a))
          /\ Passes(create_assignment(c, v), create_assignment(c, a))
          /\ Passes(get_class_assignments(c, v, v),
                    get_class_assignments(c, a, a))
          /\ \A t \in ClassTeachers :
                Passes(update_class(c, t, v), update_class(c, t, a))
          /\ \A p \in ClassStudents :
                /\ Passes(add_student_to_class(c, p, v),
                          add_student_to_class(c, p, a))
                /\ Passes(remove_student_from_class(c, p, v),
                          remove_student_from_class(c, p, a))
    /\ \A x \in {y \in DOMAIN assignments :
                    assignments[y].school_id = profiles[a].school_id} :
          Passes(update_assignment(x, v), update_assignment(x, a))

(* The operations the handlers reserve to students *)
AdminPassesStudentOnly(a, v) ==
    /\ Passes(get_my_submissions(v, v), get_my_submissions(a, a))
    /\ Passes(get_my_grades(v, v), get_my_grades(a, a))
    /\ \A x \in {y \in DOMAIN assignments :
                    assignments[y].school_id = profiles[a].school_id} :
          Passes(submit_assignment(x, assignments[x].class_id, v, v),
                 submit_assignment(x, assignments[x].class_id, a, a))

----------------------------------------------------------------------------
(* Properties of the attendance router, checked under SpecAttendance *)

AttendanceWrites ==
    {"mark_attendance", "update_attendance", "delete_attendance"}

\* C11 (as claimed): a teacher-role caller whose profile school is S1 who
\* marks, updates or deletes attendance of a class whose school is another
\* school is answered Forbidden (403) and nothing is written, whatever the
\* teacher_id of the class.
CrossSchoolAttendance ==
    \A c \in resp.found :
        ( /\ resp.op \in AttendanceWrites
          /\ CallerRole(resp.user_id) = "teacher"
          /\ CallerSchool(resp.user_id) # None
          /\ c.school_id # CallerSchool(resp.user_id) )
        => resp.status = 403 /\ resp.inserted = {}

(* the caller is the teacher of the class the request names *)
OwningTeacherCall ==
    /\ CallerRole(resp.user_id) = "teacher"
    /\ resp.found # {}
    /\ \A c \in resp.found : c.teacher_id = resp.user_id

\* C12: a mark_attendance call for a (class, student, date) that already has
\* a row inserts nothing, the owning teacher is answered "already marked"
\* (400), and the attendance table never holds two rows with the same
\* (class_id, student_id, date).
DuplicateAttendance ==
    /\ (resp.op = "mark_attendance" /\ resp.existing # {})
       => resp.inserted = {} /\ resp.status \in {400, 403, 404, 422}
    /\ (resp.op = "mark_attendance" /\ resp.existing # {} /\ OwningTeacherCall)
       => resp.status = 400
    /\ \A a, b \in DOMAIN attendance :
          ( /\ attendance[a].class_id = attendance[b].class_id
            /\ attendance[a].student_id = attendance[b].student_id
            /\ attendance[a].date = attendance[b].date )
          => a = b

DuplicateAttendanceWitness ==
    /\ resp.op = "mark_attendance"
    /\ resp.status = 400
    /\ OwningTeacherCall
    /\ \E a \in resp.existing :
          a \in DOMAIN attendance /\ attendance[a].marked_by = resp.user_id

----------------------------------------------------------------------------
(* Enrollment under overlapping requests, checked under SpecEnroll *)

\* C13 (as claimed): in every reachable state, also with overlapping
\* add_student_to_class requests for the same class and student, the
\* class_students table holds at most one row per (class_id, student_id).
EnrollmentUnique ==
    \A e \in BagToSet(class_students) : CopiesIn(e, class_students) <= 1

----------------------------------------------------------------------------
(* Properties of the session cache, checked under Spec *)

CacheLookups == {"get_user_id_for_token", "me"}

\* C14: when get_user_id_for_token(t) finds t's entry and returns None (the
\* entry has expired), t has no entry afterwards and every other entry is
\* still there, unchanged.
LazyEviction ==
    [][ ( /\ resp'.op \in CacheLookups
          /\ resp'.entry # {}
          /\ resp'.cached_uid = None )
        => /\ resp'.token \notin DOMAIN sessions'
           /\ \A x \in DOMAIN sessions \ {resp'.token} :
                 x \in DOMAIN sessions' /\ sessions'[x] = sessions[x] ]_vars

LazyEvictionWitness ==
    /\ resp.op = "get_user_id_for_token"
    /\ resp.entry # {}
    /\ resp.cached_uid = None
    /\ resp.token \notin DOMAIN sessions
    /\ DOMAIN sessions # {}

\* C15: invalidate_session(t) succeeds whether or not t has an entry; after
\* it t has no entry, invalidating t again leaves the map as it is,
\* get_user_id_for_token(t) returns None, and the entries of the other
\* tokens are unchanged.
IdempotentInvalidation ==
    [][ resp'.op = "invalidate_session"
        => /\ resp'.token \notin DOMAIN sessions'
           /\ invalidate_session(sessions', resp'.token) = sessions'
           /\ get_user_id_for_token(sessions', resp'.token, now').result = None
           /\ DOMAIN sessions' \subseteq DOMAIN sessions
           /\ \A x \in DOMAIN sessions \ {resp'.token} :
                 x \in DOMAIN sessions' /\ sessions'[x] = sessions[x] ]_vars

(* a token invalidated a second time while another token has an entry *)
IdempotentInvalidationWitness ==
    /\ resp.op = "invalidate_session"
    /\ resp.token \in DOMAIN issued
    /\ resp.entry = {}
    /\ DOMAIN sessions # {}

\* C16: clear_expired removes no entry with expires_at > now and leaves the
\* user id and the expiry of every entry it keeps unchanged.
SweepSafety ==
    [][ resp'.op = "clear_expired"
        => /\ \A x \in DOMAIN sessions :
                 sessions[x].expires_at > now => x \in DOMAIN sessions'
           /\ \A x \in DOMAIN sessions' :
                 x \in DOMAIN sessions /\ sessions'[x] = sessions[x] ]_vars

(* a sweep that kept a live entry while an expired one is gone *)
SweepSafetyWitness ==
    /\ resp.op = "clear_expired"
    /\ \E x \in DOMAIN sessions : sessions[x].expires_at > now
    /\ \E x \in DOMAIN issued \ DOMAIN sessions : issued[x].expires_at < now

\* C17 (as claimed): right after clear_expired ran at time now the session
\* map holds no entry with expires_at <= now.
SweepCompleteness ==
    resp.op = "clear_expired"
    => \A x \in DOMAIN sessions : sessions[x].expires_at > now

----------------------------------------------------------------------------
(* The guards during an outage of the profile store, checked under         *)
(* SpecGuards                                                              *)

\* C18 (as claimed): when the profile store cannot be reached while the
\* resolver or a guard resolves a caller that has a stored profile, the
\* request does not end in NotAuthenticated (401) nor in Forbidden (403).
OutageNotMisreported ==
    ( /\ resp.store = "down"
      /\ resp.user_id \in DOMAIN profiles )
    => resp.status \notin {401, 403}

----------------------------------------------------------------------------
(* The admin router, checked under SpecAdmin *)

AdminOps == {"get_all_users", "create_user", "delete_user"}

\* C19 (as claimed): get_all_users, create_user and delete_user complete
\* successfully only when the caller's stored profile has role admin.
AdminOnlyAdministration ==
    ( /\ resp.op \in AdminOps
      /\ resp.status = 200 )
    => CallerRole(resp.user_id) = "admin"

AdminSchools(tbl) ==
    {tbl[u].school_id : u \in {x \in DOMAIN tbl : tbl[x].role = "admin"}}

\* C20 (as claimed): after any sequence and any interleaving of delete_user
\* requests, every school that had an admin-role profile before still has
\* one.
LastAdminKept ==
    AdminSchools(InitProfiles) \subseteq AdminSchools(profiles)

----------------------------------------------------------------------------
(* bootstrap_admin, checked under SpecBootstrap *)

\* C21 (as claimed): across any sequence and any interleaving of
\* bootstrap_admin requests at most one of them creates a profile, so the
\* profiles table never holds more than the one bootstrapped user.
BootstrapOnlyFirst ==
    Cardinality(DOMAIN profiles) <= 1

----------------------------------------------------------------------------
(* update_my_profile, checked under SpecProfiles *)

\* C22: update_my_profile leaves the school_id of the caller's row and
\* every other profile row unchanged, and neither adds nor removes a row.
SchoolUnchangedBySelfUpdate ==
    [][ resp'.op = "update_my_profile" =>
          /\ DOMAIN profiles' = DOMAIN profiles
          /\ \A u \in DOMAIN profiles :
                /\ profiles'[u].school_id = profiles[u].school_id
                /\ u # resp'.user_id => profiles'[u] = profiles[u] ]_vars

\* C22 witness: a self-update has changed the caller's role
SchoolUnchangedWitness ==
    /\ resp.op = "update_my_profile"
    /\ resp.status = 200
    /\ resp.user_id = "T1"
    /\ resp.found = {[role |-> "teacher", school_id |-> "S1"]}
    /\ profiles["T1"] = [role |-> "admin", school_id |-> "S1"]

----------------------------------------------------------------------------
(* The auth router and the session map, checked under SpecAuth *)

Rejected == {400, 401, 403, 404, 422}

\* C23 (as claimed): a request that ends Rejected has performed no
\* mutation at all: no table, school or identity-provider account has
\* changed when signup answers with a rejection.
NoPartialExecution ==
    [][ (resp'.op = "signup" /\ resp'.status \in Rejected)
          => UNCHANGED <<profiles, schools, auth_users>> ]_vars

SessionOps == {"login", "signup"}

\* C24: a session entry appears or changes only in a login or signup that
\* answers 200, under the token returned, for the user the identity provider
\* holds; a login or signup that does not answer 200 leaves the session map
\* unchanged; an entry disappears only in invalidate_session, in
\* clear_expired, or in a lookup that finds it expired.
SessionsOnlyByAuthentication ==
    [][ /\ \A t \in DOMAIN sessions' :
              (t \notin DOMAIN sessions \/ sessions'[t] # sessions[t])
              => /\ resp'.op \in SessionOps
                 /\ resp'.status = 200
                 /\ resp'.token = t
                 /\ sessions'[t].user_id = resp'.user_id
                 /\ resp'.user_id \in auth_users'
        /\ (resp'.op \in SessionOps /\ resp'.status # 200)
              => sessions' = sessions
        /\ \A t \in DOMAIN sessions \ DOMAIN sessions' :
              \/ resp'.op = "invalidate_session" /\ resp'.token = t
              \/ resp'.op = "clear_expired" /\ is_expired(sessions[t], now)
              \/ /\ resp'.op = "me"
                 /\ resp'.token = t
                 /\ is_expired(sessions[t], now) ]_vars

\* C24 witness: a signup of a new email has answered 200 and the session
\* map holds its token for that user, after a rejected signup
SessionsOnlyByAuthenticationWitness ==
    /\ resp.op = "signup"
    /\ resp.status = 200
    /\ resp.user_id = "U2"
    /\ resp.token \in DOMAIN sessions
    /\ sessions[resp.token].user_id = "U2"

----------------------------------------------------------------------------
(* The session cache under concurrent threads, checked under SpecThreads *)

(* the thread that returns in this step *)
Returns(w) ==
    inflight[w] # Idle /\ inflight'[w] = Idle

\* C25: whatever the interleaving, an operation of the session cache that
\* returns has had exactly the effect and the result of the operation run
\* alone on the map as it was; a lookup returns None or the user id the
\* token was created with; no operation fails; and an entry leaves the map
\* only by invalidate_session of its token or when it is expired.
CacheAtomicity ==
    [][ \A w \in Workers : Returns(w) =>
          LET f == inflight[w] IN
          /\ resp'.status = 0
          /\ f.op = "create_session" =>
                sessions' = [x \in DOMAIN sessions \cup {f.token} |->
                                IF x = f.token THEN issued[f.token]
                                ELSE sessions[x]]
          /\ f.op = "get_user_id_for_token" =>
                LET r == get_user_id_for_token(sessions, f.token, f.t) IN
                /\ sessions' = r.map
                /\ resp'.cached_uid = r.result
                /\ resp'.cached_uid # None =>
                      resp'.cached_uid = issued[f.token].user_id
          /\ f.op = "invalidate_session" =>
                sessions' = invalidate_session(sessions, f.token)
          /\ f.op = "clear_expired" =>
                sessions' = clear_expired(sessions, f.t)
          /\ \A t \in DOMAIN sessions \ DOMAIN sessions' :
                \/ f.op = "invalidate_session" /\ f.token = t
                \/ is_expired(sessions[t], now) ]_vars

\* C25 witness: a lookup has returned the user of a live token while the
\* other thread is waiting for the lock with an invalidation of that token
CacheAtomicityWitness ==
    /\ resp.op = "get_user_id_for_token"
    /\ resp.cached_uid = "T1"
    /\ \E w \in Workers :
          /\ inflight[w] # Idle
          /\ inflight[w].op = "invalidate_session"
          /\ inflight[w].pc = "lock"
          /\ inflight[w].token = resp.token

----------------------------------------------------------------------------
(* update_attendance overlapping a delete, checked under                   *)
(* SpecAttendanceRace                                                      *)

\* C26 (as claimed): an update_attendance that has passed its ownership
\* check and whose target row no longer exists when the update executes
\* ends in NotFound (404).
NotFoundAfterAuthorization ==
    ( /\ resp.op = "update_attendance"
      /\ resp.found # {}
      /\ resp.existing = {} )
    => resp.status = 404

----------------------------------------------------------------------------
(* Error translation in the profiles router, checked under SpecProfiles *)

\* C27 (as claimed): a NotFound, Forbidden or NotAuthenticated outcome
\* raised inside a handler reaches the client under its own status (404,
\* 403, 401); no endpoint rewrites it into another status.
OneToOneErrorTranslation ==
    resp.raised \in {401, 403, 404} => resp.status = resp.raised

----------------------------------------------------------------------------
(* Students and class content, checked under SpecWork *)

EnrollmentGuardedOps == {"get_class_assignments", "submit_assignment"}

\* C28 (as claimed): a student-role caller gets a class's assignments, or
\* submits to one of them, only while class_students holds the row
\* (class_id, caller.id); and the class list of a student is returned only
\* to a caller that a guard has resolved.
EnrollmentGuard ==
    /\ (resp.op \in EnrollmentGuardedOps /\ resp.status = 200)
          => \A u \in resp.user :
                u.role = "student" =>
                   EnrollmentRows(class_students, resp.class_id, u.id) # {}
    /\ (resp.op = "get_student_classes" /\ resp.rows # {})
          => resp.user # {}

\* the enrollment half on its own, which the handlers do enforce
EnrollmentGuardStudents ==
    (resp.op \in EnrollmentGuardedOps /\ resp.status = 200)
       => \A u \in resp.user :
             u.role = "student" =>
                EnrollmentRows(class_students, resp.class_id, u.id) # {}

SchoolAndUserOps ==
    {"get_class_assignments", "submit_assignment", "get_my_submissions",
     "get_my_grades"}

\* C29 (as claimed): in an endpoint that takes the tenant from
\* get_current_school_id and the user from get_current_user, a request that
\* succeeds has used the school_id of the very profile whose id and role it
\* used for its checks.
SingleCallerIdentity ==
    (resp.op \in SchoolAndUserOps /\ resp.status = 200)
       => \A u \in resp.user :
             /\ u.id = resp.user_id
             /\ resp.school_id = CallerSchool(u.id)

----------------------------------------------------------------------------
(* The status mark_attendance stores, checked under SpecAttendance *)

\* C30 (as claimed): the status stored by mark_attendance equals the status
\* submitted in the request (present, absent or late).
AttendanceStatusRoundTrip ==
    (resp.op = "mark_attendance" /\ resp.status = 200)
       => \A i \in resp.item : \A x \in resp.inserted : x.status = i.status

====
